---------------------------- MODULE Spec2Model ----------------------------
(***************************************************************************)
(* A model of blurb, the tool that manages the Misc/NEWS.d fragments of    *)
(* CPython: the blurb text format (parse and serialisation), the reflow of *)
(* bodies, the "next" fragment_path codec, section name resolution, version     *)
(* discovery, and the release and merge commands over the fragment store.  *)
(*                                                                         *)
(* A Python str is a sequence of characters, each a one-character string.  *)
(* One element may also be a longer run of letters (LongWord): it stands   *)
(* for that many letters, and the length of a text is the sum of the       *)
(* lengths of its elements.                                                *)
(***************************************************************************)
EXTENDS Integers, Sequences, FiniteSets, TLC

VARIABLES
    text,       \* SpecParse: the input handed to Blurbs.parse
    ppc,        \* SpecParse: position in parse / str / parse
    blurbs1,     \* SpecParse: the result of the first parse
    output,     \* SpecParse: str(blurbs1)
    blurbs2,    \* SpecParse: the result of parsing output
    next,       \* the pending store Misc/NEWS.d/next: a set of files
    docs,       \* the per-version documents Misc/NEWS.d/<version>.rst
    news,       \* the merge output file Misc/NEWS
    git_add_files,  \* _git.git_add_files
    git_rm_files,   \* _git.git_rm_files
    cmd,        \* what the last command did
    last_entry,      \* SpecCodec: the record self[-1], (metadata, body)
    fragment_path,   \* SpecCodec: the path of a pending fragment
    built_from, \* SpecCodec: the metadata the path was formatted from
    decoded,    \* SpecCodec: what _parse_next_filename / load_next gave
    fpc,        \* SpecCodec: position in the encode / decode chains
    section_arg,    \* SpecSection: the argument of _extract_section_name
    resolution,     \* SpecSection: its result
    listing,    \* SpecVersions: the entries of Misc/NEWS.d
    found_versions,   \* SpecVersions: what glob_versions() returned
    initial_metadata, \* SpecRecord: the metadata argument of Blurbs.parse
    header_lines,     \* SpecRecord: the metadata lines of the first record
    body_part,        \* SpecRecord: the body lines of the first record
    rest_part,        \* SpecRecord: what follows the first record
    record_result,    \* SpecRecord: the result of the parse
    rcc,              \* SpecRecord: position
    reflow_text,      \* SpecReflow: the argument of textwrap_body
    wrapped_paragraphs, \* SpecReflow: paragraphs2 at the end of the loop
    reflowed,         \* SpecReflow: textwrap_body(reflow_text)
    reflowed_again,   \* SpecReflow: textwrap_body(reflowed)
    rfc,              \* SpecReflow: position
    glob_result,      \* SpecGlob: what glob_blurbs('next') returned
    gbc,              \* SpecGlob: position
    render_blurbs,    \* SpecRender: the records of one version
    render_items,     \* SpecRender: what write_news printed for them
    rdc,              \* SpecRender: position
    edited,           \* SpecAdd: the text the editor left in the temporary file
    add_blurb,        \* SpecAdd: the Blurbs loaded from it
    add_saved,        \* SpecAdd: what save_next returned or raised
    apc,              \* SpecAdd: position of the add command
    editor_runs,      \* SpecAdd: how often the editor was run
    rel_pc,           \* SpecRace: position of the release command
    rel_filenames,    \* SpecRace: filenames of release, what it listed
    rel_blurbs,       \* SpecRace: blurbs of release, what it loaded
    add_pc,           \* SpecRace: position of each add command
    late_paths        \* SpecRace: the files created after release listed

----------------------------------------------------------------------------
(* str primitives *)

NL == "\n"

Whitespace == {" ", "\n", "\t", "\r"}

IsSpace(c) == c \in Whitespace

\* len(s)
RECURSIVE TextLen(_)
TextLen(s) == IF s = <<>> THEN 0 ELSE Len(Head(s)) + TextLen(Tail(s))

RECURSIVE RStrip(_)
RStrip(s) ==
    IF s = <<>> THEN <<>>
    ELSE IF IsSpace(s[Len(s)]) THEN RStrip(SubSeq(s, 1, Len(s) - 1))
    ELSE s

RECURSIVE LStrip(_)
LStrip(s) ==
    IF s = <<>> THEN <<>>
    ELSE IF IsSpace(Head(s)) THEN LStrip(Tail(s))
    ELSE s

Strip(s) == LStrip(RStrip(s))

StartsWith(s, p) == Len(s) >= Len(p) /\ SubSeq(s, 1, Len(p)) = p

EndsWith(s, p) ==
    Len(s) >= Len(p) /\ SubSeq(s, Len(s) - Len(p) + 1, Len(s)) = p

\* s.find(sub) + 1: the first position where sub occurs in s, 0 if none
Find(s, sub) ==
    LET hits == {i \in 1..(Len(s) - Len(sub) + 1) :
                    SubSeq(s, i, i + Len(sub) - 1) = sub}
    IN IF hits = {} THEN 0 ELSE CHOOSE i \in hits : \A j \in hits : i <= j

Contains(s, sub) == Find(s, sub) # 0

\* s.partition(sep) as <<before, found, after>>
Partition(s, sep) ==
    LET i == Find(s, sep)
    IN IF i = 0 THEN <<s, <<>>, <<>>>>
       ELSE <<SubSeq(s, 1, i - 1), sep, SubSeq(s, i + Len(sep), Len(s))>>

\* s.split(sep), sep a non-empty str
RECURSIVE Split(_, _)
Split(s, sep) ==
    LET i == Find(s, sep)
    IN IF i = 0 THEN <<s>>
       ELSE <<SubSeq(s, 1, i - 1)>> \o Split(SubSeq(s, i + Len(sep), Len(s)), sep)

\* sep.join(parts)
RECURSIVE Join(_, _)
Join(parts, sep) ==
    IF parts = <<>> THEN <<>>
    ELSE IF Len(parts) = 1 THEN parts[1]
    ELSE parts[1] \o sep \o Join(Tail(parts), sep)

\* s.replace(old, new)
RECURSIVE Replace(_, _, _)
Replace(s, old, new) ==
    LET i == Find(s, old)
    IN IF i = 0 THEN s
       ELSE SubSeq(s, 1, i - 1) \o new
            \o Replace(SubSeq(s, i + Len(old), Len(s)), old, new)

UpperCase == <<"A","B","C","D","E","F","G","H","I","J","K","L","M",
               "N","O","P","Q","R","S","T","U","V","W","X","Y","Z">>
LowerCase == <<"a","b","c","d","e","f","g","h","i","j","k","l","m",
               "n","o","p","q","r","s","t","u","v","w","x","y","z">>
Digits == <<"0","1","2","3","4","5","6","7","8","9">>

LowerChar(c) ==
    IF \E i \in 1..26 : UpperCase[i] = c
    THEN LowerCase[CHOOSE i \in 1..26 : UpperCase[i] = c] ELSE c

UpperChar(c) ==
    IF \E i \in 1..26 : LowerCase[i] = c
    THEN UpperCase[CHOOSE i \in 1..26 : LowerCase[i] = c] ELSE c

\* s.lower(), s.upper()
Lower(s) == [i \in 1..Len(s) |-> LowerChar(s[i])]
Upper(s) == [i \in 1..Len(s) |-> UpperChar(s[i])]

IsDigit(c) == \E i \in 1..10 : Digits[i] = c
IsAlnum(c) == IsDigit(c) \/ LowerChar(c) # c \/ UpperChar(c) # c

\* ord(c) for the characters of the model
Ord(c) ==
    IF IsDigit(c) THEN 47 + (CHOOSE i \in 1..10 : Digits[i] = c)
    ELSE IF UpperChar(c) # c
         THEN 96 + (CHOOSE i \in 1..26 : LowerCase[i] = c)
    ELSE IF LowerChar(c) # c
         THEN 64 + (CHOOSE i \in 1..26 : UpperCase[i] = c)
    ELSE CASE c = "\t" -> 9 [] c = "\n" -> 10 [] c = "\r" -> 13
           [] c = " " -> 32 [] c = "#" -> 35 [] c = "*" -> 42
           [] c = "+" -> 43 [] c = "-" -> 45 [] c = "." -> 46
           [] c = "/" -> 47 [] c = ":" -> 58 [] c = "?" -> 63
           [] c = "_" -> 95
           [] OTHER -> 120   \* a run of the letter x

\* a < b for two str, by code points
RECURSIVE StrLess(_, _)
StrLess(a, b) ==
    IF b = <<>> THEN FALSE
    ELSE IF a = <<>> THEN TRUE
    ELSE IF Ord(Head(a)) # Ord(Head(b)) THEN Ord(Head(a)) < Ord(Head(b))
    ELSE StrLess(Tail(a), Tail(b))

StrLeq(a, b) == a = b \/ StrLess(a, b)

----------------------------------------------------------------------------
(* textwrap.wrap of the standard library, as textwrap_body calls it:       *)
(* break_long_words=False, break_on_hyphens=False, drop_whitespace=True.   *)

\* TextWrapper._munge_whitespace: every whitespace character becomes a space
MungeWhitespace(s) == [i \in 1..Len(s) |-> IF IsSpace(s[i]) THEN " " ELSE s[i]]

\* TextWrapper._split with wordsep_simple_re: runs of whitespace and runs of
\* other characters, in order
RECURSIVE RunLen(_, _)
RunLen(s, sp) ==
    IF s = <<>> \/ IsSpace(Head(s)) # sp THEN 0 ELSE 1 + RunLen(Tail(s), sp)

RECURSIVE SplitChunks(_)
SplitChunks(s) ==
    IF s = <<>> THEN <<>>
    ELSE LET n == RunLen(s, IsSpace(Head(s)))
         IN <<SubSeq(s, 1, n)>> \o SplitChunks(SubSeq(s, n + 1, Len(s)))

IsBlank(chunk) == Strip(chunk) = <<>>

\* the inner while loop of _wrap_chunks: how many chunks fit on the line
RECURSIVE FitCount(_, _, _)
FitCount(chunks, cur_len, width) ==
    IF chunks = <<>> THEN 0
    ELSE IF cur_len + TextLen(Head(chunks)) <= width
         THEN 1 + FitCount(Tail(chunks), cur_len + TextLen(Head(chunks)), width)
    ELSE 0

\* TextWrapper._wrap_chunks
RECURSIVE WrapChunks(_, _, _, _, _)
WrapChunks(chunks, lines, width0, initial_indent, subsequent_indent) ==
    IF chunks = <<>> THEN lines
    ELSE
      LET indent == IF lines # <<>> THEN subsequent_indent ELSE initial_indent
          width == width0 - TextLen(indent)
          cs == IF IsBlank(Head(chunks)) /\ lines # <<>>
                THEN Tail(chunks) ELSE chunks
          fit == FitCount(cs, 0, width)
          \* _handle_long_word without break_long_words: a word wider than
          \* the line goes alone on an empty line
          n == IF fit = 0 /\ cs # <<>> THEN 1 ELSE fit
          cur == SubSeq(cs, 1, n)
          rest == SubSeq(cs, n + 1, Len(cs))
          cur_line == IF cur # <<>> /\ IsBlank(cur[Len(cur)])
                      THEN SubSeq(cur, 1, Len(cur) - 1) ELSE cur
      IN WrapChunks(rest,
                    IF cur_line # <<>>
                    THEN Append(lines, indent \o Join(cur_line, <<>>))
                    ELSE lines,
                    width0, initial_indent, subsequent_indent)

\* textwrap.wrap(s, width=width, initial_indent=..., subsequent_indent=...)
Wrap(s, width, initial_indent, subsequent_indent) ==
    WrapChunks(SplitChunks(MungeWhitespace(s)), <<>>, width,
               initial_indent, subsequent_indent)

----------------------------------------------------------------------------
(* blurb._utils.text *)

WrapWidth == 76

ListMarkers == {<<"*", " ">>, <<"1", ".", " ">>, <<"#", ".", " ">>}

\* the indented lines of a paragraph that is not reflowed
IndentLines(paragraph, initial, subsequent) ==
    LET ls == Split(paragraph, <<NL>>)
    IN Join([i \in 1..Len(ls) |->
                (IF i = 1 THEN initial ELSE subsequent) \o RStrip(ls[i])],
            <<NL>>)

\* one '\n'.join(textwrap.wrap(paragraph.strip(), width=76, **kwargs)).rstrip()
ReflowOnce(paragraph, initial, subsequent) ==
    RStrip(Join(Wrap(Strip(paragraph), WrapWidth, initial, subsequent), <<NL>>))

\* the body of the loop over the paragraphs: the paragraph as appended to
\* paragraphs2
WrapParagraph(paragraph, dont_reflow, initial, subsequent) ==
    IF dont_reflow
    THEN IF initial # <<>> \/ subsequent # <<>>
         THEN IndentLines(paragraph, initial, subsequent)
         ELSE paragraph
    ELSE ReflowOnce(ReflowOnce(paragraph, initial, subsequent),
                    initial, subsequent)

\* the loop over the paragraphs; dont_reflow and kwargs['initial_indent']
\* are carried from one paragraph to the next
RECURSIVE WrapParagraphs(_, _, _, _)
WrapParagraphs(paragraphs, dont_reflow, initial, subsequent) ==
    IF paragraphs = <<>> THEN <<>>
    ELSE
      LET paragraph == Head(paragraphs)
          dont == dont_reflow
                  \/ \E m \in ListMarkers : StartsWith(paragraph, m)
          done == WrapParagraph(paragraph, dont, initial, subsequent)
      IN <<done>> \o WrapParagraphs(Tail(paragraphs),
                                    EndsWith(done, <<":", ":">>),
                                    subsequent, subsequent)

\* the paragraphs of a text: its lines stripped on the right, split at
\* the empty lines
Paragraphs(body) ==
    LET lines == Split(body, <<NL>>)
    IN Split(Join([i \in 1..Len(lines) |-> RStrip(lines[i])], <<NL>>),
             <<NL, NL>>)

\* textwrap_body(body, subsequent_indent=...) for body a str
textwrap_body(body, subsequent_indent) ==
    LET lines == Split(body, <<NL>>)
        stripped == Join([i \in 1..Len(lines) |-> RStrip(lines[i])], <<NL>>)
        paragraphs == Split(stripped, <<NL, NL>>)
        paragraphs2 == WrapParagraphs(paragraphs, FALSE, <<>>, subsequent_indent)
    IN RStrip(Join(paragraphs2, <<NL, NL>>)) \o <<NL>>

\* textwrap_body(body) for body a list of lines
textwrap_body_lines(body) == textwrap_body(RStrip(Join(body, <<NL>>)), <<>>)

----------------------------------------------------------------------------
(* blurb._template: the canonical sections, in the order of the template *)

sections == <<
    <<"S","e","c","u","r","i","t","y">>,
    <<"C","o","r","e"," ","a","n","d"," ","B","u","i","l","t","i","n","s">>,
    <<"L","i","b","r","a","r","y">>,
    <<"D","o","c","u","m","e","n","t","a","t","i","o","n">>,
    <<"T","e","s","t","s">>,
    <<"B","u","i","l","d">>,
    <<"W","i","n","d","o","w","s">>,
    <<"m","a","c","O","S">>,
    <<"I","D","L","E">>,
    <<"T","o","o","l","s","/","D","e","m","o","s">>,
    <<"C"," ","A","P","I">>
>>

SectionSet == {sections[i] : i \in 1..Len(sections)}

----------------------------------------------------------------------------
(* blurb._blurb_file: Blurbs.parse and Blurbs.__str__                      *)
(* A metadata dict is the sequence of its <<name, value>> items in         *)
(* insertion order; a Blurbs list is a sequence of [metadata, body].       *)

lowest_possible_gh_issue_number == 32426

K_gh_issue == <<"g","h","-","i","s","s","u","e">>
K_bpo == <<"b","p","o">>
K_section == <<"s","e","c","t","i","o","n">>
K_date == <<"d","a","t","e">>
K_nonce == <<"n","o","n","c","e">>
K_no_changes == <<"n","o"," ","c","h","a","n","g","e","s">>
K_release_date == <<"r","e","l","e","a","s","e"," ","d","a","t","e">>

\* name in metadata
HasKey(metadata, name) == \E i \in 1..Len(metadata) : metadata[i][1] = name

\* metadata[name], for a name in metadata; metadata.get(name) is <<>> (for
\* None) otherwise
Get(metadata, name) ==
    IF HasKey(metadata, name)
    THEN metadata[CHOOSE i \in 1..Len(metadata) : metadata[i][1] = name][2]
    ELSE <<>>

\* metadata[name] = value
SetKey(metadata, name, value) ==
    IF HasKey(metadata, name)
    THEN [i \in 1..Len(metadata) |->
            IF metadata[i][1] = name THEN <<name, value>> ELSE metadata[i]]
    ELSE Append(metadata, <<name, value>>)

\* del metadata[name]
DelKey(metadata, name) ==
    SelectSeq(metadata, LAMBDA item : item[1] # name)

\* metadata == other, for two dicts: the same items, in any order
DictEq(m1, m2) ==
    {m1[i] : i \in 1..Len(m1)} = {m2[i] : i \in 1..Len(m2)}

\* blurbs == other, for two lists of (metadata, body)
BlurbsEq(b1, b2) ==
    /\ Len(b1) = Len(b2)
    /\ \A i \in 1..Len(b1) :
          DictEq(b1[i].metadata, b2[i].metadata) /\ b1[i].body = b2[i].body

\* int(value) succeeds: an optional sign, then digits, single underscores
\* allowed between two digits, whitespace around ignored
IsInt(value) ==
    LET u == Strip(value)
        d == IF u # <<>> /\ Head(u) \in {"+", "-"} THEN Tail(u) ELSE u
    IN /\ d # <<>>
       /\ \A i \in 1..Len(d) :
             \/ IsDigit(d[i])
             \/ /\ d[i] = "_"
                /\ 1 < i /\ i < Len(d)
                /\ IsDigit(d[i - 1]) /\ IsDigit(d[i + 1])

RECURSIVE DigitsVal(_, _)
DigitsVal(d, acc) ==
    IF d = <<>> THEN acc
    ELSE IF Head(d) = "_" THEN DigitsVal(Tail(d), acc)
    ELSE DigitsVal(Tail(d),
                   10 * acc + (CHOOSE i \in 1..10 : Digits[i] = Head(d)) - 1)

\* int(value), for IsInt(value)
IntVal(value) ==
    LET u == Strip(value)
    IN IF Head(u) = "-" THEN 0 - DigitsVal(Tail(u), 0)
       ELSE IF Head(u) = "+" THEN DigitsVal(Tail(u), 0)
       ELSE DigitsVal(u, 0)

NoError == [type |-> "", what |-> "", arg |-> <<>>, line |-> 0]

\* raise BlurbError(f'Error in {filename}:{line_number}:\n{s}')
BlurbError(what, arg, line) ==
    [type |-> "BlurbError", what |-> what, arg |-> arg, line |-> line]

\* a failed assert statement
AssertionError(what, line) ==
    [type |-> "AssertionError", what |-> what, arg |-> <<>>, line |-> line]

naughty_prefixes == <<
    <<"-"," ">>,
    <<"I","s","s","u","e"," ","#">>,
    <<"b","p","o","-">>,
    <<"g","h","-">>,
    <<"g","h","-","i","s","s","u","e","-">>
>>

\* re.match(naughty_prefix, text, re.I): none of the prefixes holds a
\* character that is special in a regular expression
MatchesPrefixI(prefix, s) == StartsWith(Lower(s), Lower(prefix))

\* the checks of one metadata item with a floor that 32426 itself fails
ItemError_strict_floor(key, value, no_changes, line) ==
    IF key \in {K_gh_issue, K_bpo} /\ ~IsInt(value)
    THEN BlurbError(IF key = K_gh_issue THEN "Invalid GitHub number"
                    ELSE "Invalid bpo number", value, line)
    ELSE IF key = K_gh_issue /\ IntVal(value) <= lowest_possible_gh_issue_number
    THEN BlurbError("Invalid gh-issue number (must be >= floor)", value, line)
    ELSE IF key = K_section /\ no_changes = <<>> /\ value \notin SectionSet
    THEN BlurbError("Invalid section", value, line)
    ELSE NoError

\* the error of one metadata item in the loop of finish_entry, NoError if
\* the item passes
ItemError(key, value, no_changes, line) ==
    IF key \in {K_gh_issue, K_bpo} /\ ~IsInt(value)
    THEN BlurbError(IF key = K_gh_issue THEN "Invalid GitHub number"
                    ELSE "Invalid bpo number", value, line)
    ELSE IF key = K_gh_issue /\ IntVal(value) < lowest_possible_gh_issue_number
    THEN BlurbError("Invalid gh-issue number (must be >= floor)", value, line)
    ELSE IF key = K_section /\ no_changes = <<>> /\ value \notin SectionSet
    THEN BlurbError("Invalid section", value, line)
    ELSE NoError

\* the loop over metadata.items() of finish_entry: the first error, in the
\* order of the items
RECURSIVE MetadataError(_, _, _)
MetadataError(items, no_changes, line) ==
    IF items = <<>> THEN NoError
    ELSE LET e == ItemError(Head(items)[1], Head(items)[2], no_changes, line)
         IN IF e # NoError THEN e
            ELSE MetadataError(Tail(items), no_changes, line)

\* the search for a naughty prefix without re.I
NaughtyPrefix_case_sensitive(t) ==
    LET bad == {i \in 1..Len(naughty_prefixes) :
                    StartsWith(t, naughty_prefixes[i])}
    IN IF bad = {} THEN 0 ELSE CHOOSE i \in bad : \A j \in bad : i <= j

\* the first of the naughty prefixes the text of a body starts with, as
\* its index, 0 if it starts with none
NaughtyPrefix(t) ==
    LET bad == {i \in 1..Len(naughty_prefixes) :
                    MatchesPrefixI(naughty_prefixes[i], t)}
    IN IF bad = {} THEN 0 ELSE CHOOSE i \in bad : \A j \in bad : i <= j

\* the checks of finish_entry after the reflow, for naughty the index of
\* the forbidden prefix found and e the error of the metadata items
CheckedEntry(metadata, naughty, e, line) ==
    IF naughty # 0
    THEN BlurbError("body can't start with", naughty_prefixes[naughty], line)
    ELSE IF e # NoError THEN e
    ELSE IF ~HasKey(metadata, K_gh_issue) /\ ~HasKey(metadata, K_bpo)
    THEN BlurbError("gh-issue or bpo must be specified", <<>>, line)
    ELSE IF ~HasKey(metadata, K_section)
    THEN BlurbError("No section specified", <<>>, line)
    ELSE NoError

\* the error finish_entry throws, NoError if the entry is accepted
EntryError(metadata, body, line) ==
    IF body = <<>> THEN BlurbError("body must not be empty", <<>>, line)
    ELSE CheckedEntry(metadata,
                      NaughtyPrefix(textwrap_body_lines(body)),
                      MetadataError(metadata, Get(metadata, K_no_changes), line),
                      line)

\* The state of Blurbs.parse between two lines: self, the nonlocals of
\* finish_entry, and the exception that ended the parse if one did.
\* finish_entry leaving the metadata of the entry in place
FinishedEntry_keeps_metadata(st, e) ==
    IF e # NoError THEN [st EXCEPT !.err = e]
    ELSE [st EXCEPT
            !.self = Append(@, [metadata |-> st.metadata,
                                body |-> textwrap_body_lines(st.body)]),
            !.body = <<>>,
            !.in_metadata = TRUE]

\* finish_entry once its checks gave the error e
FinishedEntry(st, e) ==
    IF e # NoError THEN [st EXCEPT !.err = e]
    ELSE [st EXCEPT
            !.self = Append(@, [metadata |-> st.metadata,
                                body |-> textwrap_body_lines(st.body)]),
            !.metadata = <<>>,
            !.body = <<>>,
            !.in_metadata = TRUE]

finish_entry(st, line) ==
    FinishedEntry(st, EntryError(st.metadata, st.body, line))

\* the body of the loop reading metadata lines wherever they stand
ParseLine_always_metadata(st, raw, line_number) ==
    LET line == RStrip(raw)
    IN IF StartsWith(line, <<".", ".">>) /\ line # <<".", ".">>
       THEN LET p == Partition(Strip(SubSeq(line, 3, Len(line))), <<":">>)
                name == Strip(Lower(p[1]))
                value == Strip(p[3])
            IN IF p[2] = <<>>
               THEN [st EXCEPT !.err = AssertionError("assert colon", line_number)]
               ELSE IF HasKey(st.metadata, name)
               THEN [st EXCEPT !.err = BlurbError("metadata sets name twice",
                                                  name, line_number)]
               ELSE [st EXCEPT !.metadata = Append(@, <<name, value>>)]
       ELSE IF st.in_metadata /\ (StartsWith(line, <<"#">>) \/ line = <<>>)
       THEN st
       ELSE IF line = <<".", ".">>
       THEN finish_entry([st EXCEPT !.in_metadata = FALSE], line_number)
       ELSE [st EXCEPT !.in_metadata = FALSE, !.body = Append(@, line)]

\* the body of the loop over the lines of the text
ParseLine(st, raw, line_number) ==
    LET line == RStrip(raw)
    IN IF st.in_metadata /\ StartsWith(line, <<".", ".">>)
       THEN LET p == Partition(Strip(SubSeq(line, 3, Len(line))), <<":">>)
                name == Strip(Lower(p[1]))
                value == Strip(p[3])
            IN IF p[2] = <<>>
               THEN [st EXCEPT !.err = AssertionError("assert colon", line_number)]
               ELSE IF HasKey(st.metadata, name)
               THEN [st EXCEPT !.err = BlurbError("metadata sets name twice",
                                                  name, line_number)]
               ELSE [st EXCEPT !.metadata = Append(@, <<name, value>>)]
       ELSE IF st.in_metadata /\ (StartsWith(line, <<"#">>) \/ line = <<>>)
       THEN st
       ELSE IF line = <<".", ".">>
       THEN finish_entry([st EXCEPT !.in_metadata = FALSE], line_number)
       ELSE [st EXCEPT !.in_metadata = FALSE, !.body = Append(@, line)]

RECURSIVE ParseLines(_, _, _)
ParseLines(st, lines, i) ==
    IF st.err # NoError \/ i > Len(lines) THEN st
    ELSE ParseLines(ParseLine(st, lines[i], i - 1), lines, i + 1)

\* the call of finish_entry that follows the loop, unless the loop raised
FinishLast(st, line) ==
    IF st.err # NoError THEN st ELSE finish_entry(st, line)

\* what a parse that ended in state st leaves behind
ParseOutcome(st) == [self |-> st.self, err |-> st.err]

\* the loop of parse over the lines and the last finish_entry
ParseText(st, lines) ==
    ParseOutcome(FinishLast(ParseLines(st, lines, 1), Len(lines) - 1))

\* Blurbs.parse(self, text, metadata=metadata): the list self afterwards and
\* the exception raised, NoError if parse returned
parse(self, txt, metadata) ==
    ParseText([self |-> self, metadata |-> metadata, body |-> <<>>,
               in_metadata |-> TRUE, err |-> NoError],
              Split(txt, <<NL>>))

\* sorted(metadata.items())
RECURSIVE SortedItems(_)
SortedItems(metadata) ==
    IF metadata = <<>> THEN <<>>
    ELSE LET least == CHOOSE i \in 1..Len(metadata) :
                        \A j \in 1..Len(metadata) :
                           StrLeq(metadata[i][1], metadata[j][1])
         IN <<metadata[least]>>
            \o SortedItems(SelectSeq(metadata,
                                     LAMBDA item : item # metadata[least]))

\* the lines '.. name: value\n' of one entry
RECURSIVE MetadataLines(_)
MetadataLines(items) ==
    IF items = <<>> THEN <<>>
    ELSE <<".", ".", " ">> \o Head(items)[1] \o <<":", " ">>
         \o Head(items)[2] \o <<NL>> \o MetadataLines(Tail(items))

EntryStr(entry) ==
    (IF entry.metadata # <<>>
     THEN MetadataLines(SortedItems(entry.metadata)) \o <<NL>>
     ELSE <<>>)
    \o textwrap_body(entry.body, <<>>)

\* Blurbs.__str__
RECURSIVE BlurbsStr(_)
BlurbsStr(self) ==
    IF self = <<>> THEN <<>>
    ELSE IF Len(self) = 1 THEN EntryStr(self[1])
    ELSE EntryStr(self[1]) \o <<NL, ".", ".", NL, NL>> \o BlurbsStr(Tail(self))

----------------------------------------------------------------------------
(* blurb._template: directory names of the sections *)

S_C_API == <<"C"," ","A","P","I">>
S_Core_and_Builtins == <<"C","o","r","e"," ","a","n","d"," ","B","u","i","l","t","i","n","s">>
S_Tools_Demos == <<"T","o","o","l","s","/","D","e","m","o","s">>
S_Library == <<"L","i","b","r","a","r","y">>

\* the items of _unsanitize_section, in order; _sanitize_section holds the
\* same pairs the other way round
unsanitize_items == <<
    <<<<"C","_","A","P","I">>, S_C_API>>,
    <<<<"C","o","r","e","_","a","n","d","_","B","u","i","l","t","i","n","s">>, S_Core_and_Builtins>>,
    <<<<"T","o","o","l","s","-","D","e","m","o","s">>, S_Tools_Demos>>
>>

\* sanitize_section replacing the slash only, as the legacy form does
sanitize_section_slash_only(section) == Replace(section, <<"/">>, <<"-">>)

sanitize_section(section) ==
    IF \E i \in 1..3 : unsanitize_items[i][2] = section
    THEN unsanitize_items[CHOOSE i \in 1..3 : unsanitize_items[i][2] = section][1]
    ELSE section

sanitize_section_legacy(section) == Replace(section, <<"/">>, <<"-">>)

\* unsanitize_section leaving the directory name as it is
unsanitize_section_as_is(section) == section

unsanitize_section(section) ==
    IF \E i \in 1..3 : unsanitize_items[i][1] = section
    THEN unsanitize_items[CHOOSE i \in 1..3 : unsanitize_items[i][1] = section][2]
    ELSE section

\* a sort key that leaves the directory names as they are on disk
next_filename_as_is(filename) == filename

\* next_filename_unsanitize_sections: for each item the loop over the two
\* separators wraps key and value once more on its second round
RECURSIVE UnsanitizeFrom(_, _)
UnsanitizeFrom(filename, i) ==
    IF i > Len(unsanitize_items) THEN filename
    ELSE LET key1 == <<"/">> \o unsanitize_items[i][1] \o <<"/">>
             value1 == <<"/">> \o unsanitize_items[i][2] \o <<"/">>
             key2 == <<"\\">> \o key1 \o <<"\\">>
             value2 == <<"\\">> \o value1 \o <<"\\">>
         IN UnsanitizeFrom(
                Replace(Replace(filename, key1, value1), key2, value2), i + 1)

next_filename_unsanitize_sections(filename) == UnsanitizeFrom(filename, 1)

----------------------------------------------------------------------------
(* blurb._blurb_file: the "next" filename codec *)

\* blurb._blurb_file.root, as chdir_to_repo_root sets it
root == <<"/", "r">>

NextBase == <<"M","i","s","c","/","N","E","W","S",".","d","/","n","e","x","t">>

NoMetadata == [metadata |-> <<>>, err |-> NoError]

\* the loop over fields[1:-2] of _parse_next_filename
RECURSIVE ParseFields(_, _)
ParseFields(fields, metadata) ==
    IF fields = <<>> THEN [metadata |-> metadata, err |-> NoError]
    ELSE LET field == Head(fields)
             gh == Partition(field, K_gh_issue \o <<"-">>)
             bpo == Partition(field, K_bpo \o <<"-">>)
         IN IF gh[2] # <<>>
            THEN ParseFields(Tail(fields),
                             SetKey(metadata, K_gh_issue, Strip(gh[3])))
            ELSE IF bpo[2] # <<>>
            THEN ParseFields(Tail(fields),
                             SetKey(metadata, K_bpo, Strip(bpo[3])))
            ELSE [metadata |-> <<>>,
                  err |-> AssertionError("unparsable field", 0)]

\* Blurbs._parse_next_filename(filename): the metadata dict, or the
\* exception raised
_parse_next_filename(filename) ==
    LET components == Split(filename, <<"/">>)
        n == Len(components)
        section == unsanitize_section(components[n - 1])
        parts == Split(components[n], <<".">>)
        fields == [i \in 1..Len(parts) |-> Strip(parts[i])]
        k == Len(fields)
    IN IF n < 2
       THEN [metadata |-> <<>>,
             err |-> [type |-> "ValueError", what |-> "unpack",
                      arg |-> <<>>, line |-> 0]]
       ELSE IF section \notin SectionSet
       THEN [metadata |-> <<>>, err |-> AssertionError("Unknown section", 0)]
       ELSE IF k < 4
       THEN [metadata |-> <<>>, err |-> AssertionError("Can't parse", 0)]
       ELSE IF fields[k] # <<"r", "s", "t">>
       THEN [metadata |-> <<>>, err |-> AssertionError("not rst", 0)]
       ELSE ParseFields(SubSeq(fields, 2, k - 2),
                        << <<K_date, fields[1]>>, <<K_nonce, fields[k - 1]>>,
                           <<K_section, section>> >>)

\* generate_nonce / nonceify: six characters of the URL-safe base64 alphabet
\* that depend on the body alone (the MD5 digest is abstracted to a sum of
\* the code points)
Base64Url ==
    UpperCase \o LowerCase \o Digits \o <<"-", "_">>

RECURSIVE BodySum(_, _)
BodySum(body, k) ==
    IF body = <<>> THEN 0
    ELSE (k * Ord(Head(body)) + BodySum(Tail(body), k)) % 4096

generate_nonce(body) ==
    [k \in 1..6 |-> Base64Url[((BodySum(body, k) + 7 * k) % 64) + 1]]

\* Blurbs.ensure_metadata on the metadata of self[-1]; now is what
\* sortable_datetime() returns
ensure_metadata(metadata, body, now) ==
    LET m1 == IF HasKey(metadata, K_gh_issue) THEN metadata
              ELSE Append(metadata, <<K_gh_issue, <<"0">>>>)
        m2 == IF HasKey(m1, K_bpo) THEN m1 ELSE Append(m1, <<K_bpo, <<"0">>>>)
        m3 == IF HasKey(m2, K_date) THEN m2 ELSE Append(m2, <<K_date, now>>)
        m4 == IF HasKey(m3, K_nonce) THEN m3
              ELSE Append(m3, <<K_nonce, generate_nonce(body)>>)
    IN m4

\* the path _extract_next_filename formats for one issue field
NextPath(m, field) ==
    root \o <<"/">> \o NextBase \o <<"/">>
    \o sanitize_section(Get(m, K_section)) \o <<"/">>
    \o Get(m, K_date) \o <<".">> \o field \o <<"-">> \o Get(m, field)
    \o <<".">> \o Get(m, K_nonce) \o <<".", "r", "s", "t">>

RECURSIVE DelKeys(_, _)
DelKeys(metadata, names) ==
    IF names = <<>> THEN metadata
    ELSE DelKeys(DelKey(metadata, Head(names)), Tail(names))

\* Blurbs._extract_next_filename on the entry self[-1]: the path returned,
\* the metadata of the entry afterwards, and the exception raised if any
_extract_next_filename(entry, now) ==
    IF ~HasKey(entry.metadata, K_section)
    THEN [path |-> <<>>, metadata |-> entry.metadata,
          err |-> AssertionError("section in metadata", 0)]
    ELSE
      LET m == ensure_metadata(entry.metadata, entry.body, now)
          left == DelKeys(m, <<K_section, K_date, K_gh_issue, K_bpo, K_nonce>>)
          \* what the dict holds when an exception leaves the method early
          partial == SetKey(SetKey(m, K_section,
                                   sanitize_section(Get(m, K_section))),
                            <<"r", "o", "o", "t">>, root)
      IN IF ~IsInt(Get(m, K_gh_issue))
         THEN [path |-> <<>>, metadata |-> partial,
               err |-> [type |-> "ValueError", what |-> "int(gh-issue)",
                        arg |-> Get(m, K_gh_issue), line |-> 0]]
         ELSE IF IntVal(Get(m, K_gh_issue)) > 0
         THEN [path |-> NextPath(m, K_gh_issue), metadata |-> left,
               err |-> NoError]
         ELSE IF ~IsInt(Get(m, K_bpo))
         THEN [path |-> <<>>, metadata |-> partial,
               err |-> [type |-> "ValueError", what |-> "int(bpo)",
                        arg |-> Get(m, K_bpo), line |-> 0]]
         ELSE IF IntVal(Get(m, K_bpo)) > 0
         THEN [path |-> NextPath(m, K_bpo), metadata |-> left, err |-> NoError]
         ELSE [path |-> <<>>, metadata |-> left,
               err |-> [type |-> "UnboundLocalError", what |-> "path",
                        arg |-> <<>>, line |-> 0]]

----------------------------------------------------------------------------
(* blurb._versions *)

V_next == <<"n","e","x","t">>
Ext_rst == <<".","r","s","t">>

\* s.rjust(width, '0')
RECURSIVE RJust0(_, _)
RJust0(str, width) ==
    IF TextLen(str) >= width THEN str ELSE RJust0(<<"0">> \o str, width)

KeyWidth == 6

\* the for/else over ('a', 'b', 'rc') of version_key: <<last, stage,
\* stage_version>>
SplitStage(last) ==
    IF Contains(last, <<"a">>) THEN Partition(last, <<"a">>)
    ELSE IF Contains(last, <<"b">>) THEN Partition(last, <<"b">>)
    ELSE IF Contains(last, <<"r", "c">>) THEN Partition(last, <<"r", "c">>)
    ELSE <<last, <<"z", "z">>, <<"0">>>>

RECURSIVE PadFields(_)
PadFields(fields) ==
    IF Len(fields) < 3 THEN PadFields(Append(fields, <<"0">>)) ELSE fields

\* version_key without the rjust(6, '0') of the fields
version_key_unpadded(element) ==
    LET fields == Split(element, <<".">>)
        st == SplitStage(fields[Len(fields)])
        padded == PadFields(Append(SubSeq(fields, 1, Len(fields) - 1), st[1]))
    IN IF Len(fields) = 1 THEN element
       ELSE Join(padded \o <<st[2], st[3]>>, <<".">>)

version_key(element) ==
    LET fields == Split(element, <<".">>)
        st == SplitStage(fields[Len(fields)])
        padded == PadFields(Append(SubSeq(fields, 1, Len(fields) - 1), st[1]))
        all == padded \o <<st[2], st[3]>>
    IN IF Len(fields) = 1 THEN element
       ELSE Join([i \in 1..Len(all) |-> RJust0(all[i], KeyWidth)], <<".">>)

\* the sequences that list the elements of a set once each: the orders in
\* which glob.glob may return its matches
Listings(S) ==
    {l \in [1..Cardinality(S) -> S] :
        \A i, j \in 1..Cardinality(S) : l[i] = l[j] => i = j}

\* list.sort(key=..., reverse=True) on a list given as <<key, element>>
\* pairs: descending by key, elements with equal keys keep their order
RECURSIVE SortDescByKey(_)
SortDescByKey(pairs) ==
    IF pairs = <<>> THEN <<>>
    ELSE LET first == CHOOSE i \in 1..Len(pairs) :
                        /\ \A j \in 1..Len(pairs) :
                              StrLeq(pairs[j][1], pairs[i][1])
                        /\ \A j \in 1..(i - 1) : pairs[j][1] # pairs[i][1]
         IN <<pairs[first][2]>>
            \o SortDescByKey(SubSeq(pairs, 1, first - 1)
                             \o SubSeq(pairs, first + 1, Len(pairs)))

\* glob.glob('2.*.rst') and glob.glob('3.*.rst') in Misc/NEWS.d
MatchesVersionGlob(name, major) ==
    /\ StartsWith(name, <<major, ".">>)
    /\ EndsWith(name, Ext_rst)
    /\ Len(name) >= 6

\* glob_versions(), for names the set of entries of Misc/NEWS.d and the
\* orders in which the three globs list them: the sorted list of versions
glob_versions(list2, list3, has_next) ==
    LET found == list2 \o list3 \o (IF has_next THEN <<V_next>> ELSE <<>>)
        versions == [i \in 1..Len(found) |-> Partition(found[i], Ext_rst)[1]]
    IN SortDescByKey([i \in 1..Len(versions) |->
                        <<version_key(versions[i]), versions[i]>>])

\* the results glob_versions() can return over the directory entries names
GlobVersionsResults(names) ==
    {glob_versions(l2, l3, V_next \in names) :
        l2 \in Listings({n \in names : MatchesVersionGlob(n, "2")}),
        l3 \in Listings({n \in names : MatchesVersionGlob(n, "3")})}

printable_version(version) ==
    IF version = V_next THEN version
    ELSE IF Contains(version, <<"a">>)
    THEN Replace(version, <<"a">>, <<" ","a","l","p","h","a"," ">>)
    ELSE IF Contains(version, <<"b">>)
    THEN Replace(version, <<"b">>, <<" ","b","e","t","a"," ">>)
    ELSE IF Contains(version, <<"r", "c">>)
    THEN Replace(version, <<"r", "c">>, <<" ","r","e","l","e","a","s","e"," ","c","a","n","d","i","d","a","t","e"," ">>)
    ELSE version \o <<" ","f","i","n","a","l">>

----------------------------------------------------------------------------
(* blurb._add: section name resolution *)

SECTION_ALIASES == <<
    <<<<"a","p","i">>, <<"C"," ","A","P","I">>>>,
    <<<<"c","a","p","i">>, <<"C"," ","A","P","I">>>>,
    <<<<"c","-","a","p","i">>, <<"C"," ","A","P","I">>>>,
    <<<<"b","u","i","l","t","i","n">>, <<"C","o","r","e"," ","a","n","d"," ","B","u","i","l","t","i","n","s">>>>,
    <<<<"b","u","i","l","t","i","n","s">>, <<"C","o","r","e"," ","a","n","d"," ","B","u","i","l","t","i","n","s">>>>,
    <<<<"c","o","r","e">>, <<"C","o","r","e"," ","a","n","d"," ","B","u","i","l","t","i","n","s">>>>,
    <<<<"d","e","m","o">>, <<"T","o","o","l","s","/","D","e","m","o","s">>>>,
    <<<<"d","e","m","o","s">>, <<"T","o","o","l","s","/","D","e","m","o","s">>>>,
    <<<<"t","o","o","l">>, <<"T","o","o","l","s","/","D","e","m","o","s">>>>,
    <<<<"t","o","o","l","s">>, <<"T","o","o","l","s","/","D","e","m","o","s">>>>,
    <<<<"d","o","c">>, <<"D","o","c","u","m","e","n","t","a","t","i","o","n">>>>,
    <<<<"d","o","c","s">>, <<"D","o","c","u","m","e","n","t","a","t","i","o","n">>>>,
    <<<<"t","e","s","t">>, <<"T","e","s","t","s">>>>,
    <<<<"l","i","b">>, <<"L","i","b","r","a","r","y">>>>
>>

\* sorted(matches)
RECURSIVE SortAsc(_)
SortAsc(items) ==
    IF items = <<>> THEN <<>>
    ELSE LET first == CHOOSE i \in 1..Len(items) :
                        /\ \A j \in 1..Len(items) : StrLeq(items[i], items[j])
                        /\ \A j \in 1..(i - 1) : items[j] # items[i]
         IN <<items[first]>>
            \o SortAsc(SubSeq(items, 1, first - 1)
                       \o SubSeq(items, first + 1, Len(items)))

\* re.sub(r'[_\- /]', ' ', section)
SeparatorsToSpaces(section) ==
    [i \in 1..Len(section) |->
        IF section[i] \in {"_", "-", " ", "/"} THEN " " ELSE section[i]]

\* re.split(r'\s+', sanitized), for a stripped, non-empty sanitized
SplitWords(sanitized) ==
    SelectSeq(SplitChunks(sanitized), LAMBDA chunk : ~IsBlank(chunk))

\* the pattern r'[\s/]*'.join(words), case-insensitive, matches name from
\* position pos on
RECURSIVE MatchWordsAt(_, _, _)
MatchWordsAt(words, name, pos) ==
    IF words = <<>> THEN TRUE
    ELSE LET w == Lower(Head(words))
         IN /\ pos + Len(w) - 1 <= Len(name)
            /\ Lower(SubSeq(name, pos, pos + Len(w) - 1)) = w
            /\ \/ Tail(words) = <<>>
               \/ \E skip \in 0..(Len(name) - pos - Len(w) + 1) :
                     /\ \A k \in 1..skip :
                           LET c == name[pos + Len(w) + k - 1]
                           IN IsSpace(c) \/ c = "/"
                     /\ MatchWordsAt(Tail(words), name, pos + Len(w) + skip)

\* section_regex.search(section_name)
SearchWords(words, name) ==
    \E pos \in 1..(Len(name) + 1) : MatchWordsAt(words, name, pos)

\* re.sub(r'[^a-zA-Z0-9]', '', section_name)
OnlyAlnum(name) == SelectSeq(name, IsAlnum)

\* _find_smart_matches with the prefix pass tried before the pattern
_find_smart_matches_prefix_first(section) ==
    LET sanitized == Strip(SeparatorsToSpaces(section))
        section_words == SplitWords(sanitized)
        normalized == Lower(Join(section_words, <<>>))
        matches == SelectSeq(sections,
                LAMBDA name : StartsWith(Lower(OnlyAlnum(name)), normalized))
    IN IF sanitized = <<>> THEN <<>>
       ELSE IF matches # <<>> THEN matches
       ELSE SelectSeq(sections,
                      LAMBDA name : SearchWords(section_words, name))

_find_smart_matches(section) ==
    LET sanitized == Strip(SeparatorsToSpaces(section))
        section_words == SplitWords(sanitized)
        matches == SelectSeq(sections,
                             LAMBDA name : SearchWords(section_words, name))
        normalized == Lower(Join(section_words, <<>>))
    IN IF sanitized = <<>> THEN <<>>
       ELSE IF matches # <<>> THEN matches
       ELSE SelectSeq(sections,
                LAMBDA name : StartsWith(Lower(OnlyAlnum(name)), normalized))

\* What _extract_section_name returns or raises: the name returned (ok), or
\* the SystemExit raised (what) with the matches it lists.
Resolved(name) == [ok |-> TRUE, name |-> name, what |-> "", matches |-> <<>>]
SectionExit(what, matches) ==
    [ok |-> FALSE, name |-> <<>>, what |-> what, matches |-> matches]

\* the alias lookup
AliasOf(section_lower) ==
    LET hits == {i \in 1..Len(SECTION_ALIASES) :
                    SECTION_ALIASES[i][1] = section_lower}
    IN IF hits = {} THEN <<>> ELSE SECTION_ALIASES[CHOOSE i \in hits : TRUE][2]

\* CaseInsensitiveExact, returning the input as it was typed instead of the
\* catalog's spelling
CaseInsensitiveExact_AsTyped(section) ==
    IF \E i \in 1..Len(sections) : Lower(section) = Lower(sections[i])
    THEN section ELSE <<>>

\* the case-insensitive exact match: the first section whose lower-cased
\* name is the lower-cased input, <<>> if none
CaseInsensitiveExact(section) ==
    LET hits == {i \in 1..Len(sections) : Lower(section) = Lower(sections[i])}
    IN IF hits = {} THEN <<>>
       ELSE sections[CHOOSE i \in hits : \A j \in hits : i <= j]

\* the case-insensitive substring match
SubstringMatches(section_lower) ==
    IF Len(section_lower) > 1
    THEN SelectSeq(sections, LAMBDA name : Contains(Lower(name), section_lower))
    ELSE <<>>

\* _extract_section_name(section), for section a str
_extract_section_name(raw_section) ==
    LET section == Strip(raw_section)
        section_lower == Lower(section)
        substr == SubstringMatches(section_lower)
        matches == IF substr # <<>> THEN substr ELSE _find_smart_matches(section)
    IN IF section = <<>> THEN SectionExit("Empty section name!", <<>>)
       ELSE IF AliasOf(section_lower) # <<>> THEN Resolved(AliasOf(section_lower))
       ELSE IF section \in SectionSet THEN Resolved(section)
       ELSE IF CaseInsensitiveExact(section) # <<>>
       THEN Resolved(CaseInsensitiveExact(section))
       ELSE IF matches = <<>>
       THEN SectionExit("Invalid section name", <<>>)
       ELSE IF Len(matches) > 1
       THEN SectionExit("More than one match", SortAsc(matches))
       ELSE Resolved(matches[1])

----------------------------------------------------------------------------
(* The files of the repository. A directory is a set of files               *)
(* [path, content]; the paths are relative to the root of the repository,   *)
(* which is the working directory of every command.                         *)

NewsDir == <<"M","i","s","c","/","N","E","W","S",".","d">>
README == <<"R","E","A","D","M","E",".","r","s","t">>

Exists(files, path) == \E f \in files : f.path = path
ReadFile(files, path) == (CHOOSE f \in files : f.path = path).content
WriteFile(files, path, content) ==
    {f \in files : f.path # path} \cup {[path |-> path, content |-> content]}

\* the path of a file named with the root in front, as save_next names it
RelPath(path) ==
    IF StartsWith(path, root \o <<"/">>)
    THEN SubSeq(path, Len(root) + 2, Len(path)) ELSE path

DocPath(version) == NewsDir \o <<"/">> \o version \o Ext_rst

\* os.path.basename(path)
Basename(path) == LET c == Split(path, <<"/">>) IN c[Len(c)]

(* blurb.blurb.glob_blurbs, which release calls, and blurb._merge.glob_blurbs *)

sanitized_sections ==
    {sanitize_section(sections[i]) : i \in 1..Len(sections)}
    \cup {sanitize_section_legacy(sections[i]) : i \in 1..Len(sections)}

\* glob.glob(os.path.join(base, section, '*.rst')) matches path
MatchesSectionGlob(path, section) ==
    LET prefix == NextBase \o <<"/">> \o section \o <<"/">>
        name == SubSeq(path, Len(prefix) + 1, Len(path))
    IN /\ StartsWith(path, prefix)
       /\ ~Contains(name, <<"/">>)
       /\ EndsWith(name, Ext_rst)
       /\ Head(name) # "."

\* the entries that are left once the deletables are removed
PendingEntries(files) ==
    {f.path : f \in {g \in files :
        /\ \E section \in sanitized_sections : MatchesSectionGlob(g.path, section)
        /\ ~EndsWith(g.path, <<"/">> \o README)}}

\* glob_blurbs that never finds the document of a version
glob_blurbs_pending_only(version, pending, documents) ==
    IF version # V_next THEN {<<>>}
    ELSE {SortDescByKey([i \in 1..Len(l) |->
                <<next_filename_unsanitize_sections(l[i]), l[i]>>]) :
            l \in Listings(PendingEntries(pending))}

\* The lists glob_blurbs(version) can return. The order in which the set of
\* directory names is iterated and in which glob lists a directory is not
\* fixed; the sort is stable, so entries with equal keys keep that order.
glob_blurbs(version, pending, documents) ==
    IF version # V_next
    THEN {IF Exists(documents, DocPath(version))
          THEN <<DocPath(version)>> ELSE <<>>}
    ELSE {SortDescByKey([i \in 1..Len(l) |->
                <<next_filename_unsanitize_sections(l[i]), l[i]>>]) :
            l \in Listings(PendingEntries(pending))}

(* blurb._blurb_file: load and load_next *)

\* self.extend(o), after the assert on the length of o
Extended(self, o) ==
    IF o.err # NoError THEN [self |-> self, err |-> o.err]
    ELSE IF Len(o.self) # 1
    THEN [self |-> self, err |-> AssertionError("len(o) == 1", 0)]
    ELSE [self |-> self \o o.self, err |-> NoError]

\* load_next once the filename is decoded to md
LoadedWith(self, md, content) ==
    IF md.err # NoError THEN [self |-> self, err |-> md.err]
    ELSE Extended(self, parse(<<>>, content, md.metadata))

\* Blurbs.load_next(filename), content being what the file holds
load_next(self, filename, content) ==
    LoadedWith(self, _parse_next_filename(filename), content)

\* the loop 'for filename in filenames: blurbs.load_next(filename)'
RECURSIVE LoadAll(_, _, _)
LoadRest(r, filenames, pending) ==
    IF r.err # NoError THEN r ELSE LoadAll(r.self, filenames, pending)

LoadAll(self, filenames, pending) ==
    IF filenames = <<>> THEN [self |-> self, err |-> NoError]
    ELSE LoadRest(load_next(self, Head(filenames),
                            ReadFile(pending, Head(filenames))),
                  Tail(filenames), pending)

----------------------------------------------------------------------------
(* blurb._git and blurb._release *)

\* flush_git_rm_files removing nothing
flush_git_rm_files_nothing(pending, files) == pending

\* flush_git_rm_files removing every fragment file there is
flush_git_rm_files_everything(pending, files) ==
    {f \in pending : Basename(f.path) = README}

\* flush_git_rm_files(): the pending store once the listed files are
\* removed by 'git rm' and os.unlink
flush_git_rm_files(pending, files) ==
    {f \in pending : \A i \in 1..Len(files) : f.path # files[i]}

\* the record release appends when there are no pending fragments
NoChangesBody(version) ==
    <<"T","h","e","r","e"," ","w","e","r","e"," ","n","o"," ","n","e","w"," ","c","h","a","n","g","e","s"," ","i","n"," ","v","e","r","s","i","o","n"," ">> \o version \o <<".", NL>>

NoChanges(version, date) ==
    << [metadata |-> << <<K_no_changes, <<"T","r","u","e">>>>,
                        <<K_gh_issue, <<"0">>>>,
                        <<K_section, S_Library>>,
                        <<K_date, date>>,
                        <<K_nonce, generate_nonce(NoChangesBody(version))>> >>,
        body |-> NoChangesBody(version)] >>

\* metadata = blurbs[0][0]; metadata['release date'] = date
Stamped(blurbs, date) ==
    [blurbs EXCEPT ![1].metadata = SetKey(@, K_release_date, date)]

\* What release leaves behind: the outcome, the two directories, the two
\* git lists as they are when the command ends, and the record of the
\* command.
Released(version, outcome, filenames, pending, documents, adds, saved) ==
    [next |-> pending, docs |-> documents,
     git_add_files |-> adds, git_rm_files |-> <<>>,
     cmd |-> [op |-> "release", version |-> version, outcome |-> outcome,
              listed |-> filenames, saved |-> saved,
              wrote |-> saved # <<>>,
              rendered |-> <<>>]]

\* a sanity check that finds nothing wrong
SanityCheck_passes(blurbs, reloaded) == "ok"

\* the sanity check at the end of release: reloaded is what loading the
\* saved file gave
SanityCheck(blurbs, reloaded) ==
    IF reloaded.err # NoError THEN reloaded.err.type
    ELSE IF ~BlurbsEq(reloaded.self, blurbs) THEN "AssertionError"
    ELSE "ok"

\* release from blurbs.save(output) on; add_ok tells whether 'git add'
\* succeeded
SavedRelease(version, filenames, pending, documents, blurbs, add_ok) ==
    IF ~add_ok
    THEN Released(version, "CalledProcessError", filenames, pending,
                  WriteFile(documents, DocPath(version), BlurbsStr(blurbs)),
                  <<DocPath(version)>>, blurbs)
    ELSE Released(version,
                  SanityCheck(blurbs, parse(<<>>, BlurbsStr(blurbs), <<>>)),
                  filenames,
                  flush_git_rm_files(pending, filenames),
                  WriteFile(documents, DocPath(version), BlurbsStr(blurbs)),
                  <<>>, blurbs)

\* release once the pending fragments are loaded, or failed to load
LoadedRelease(version, filenames, pending, documents, loaded, date, add_ok) ==
    IF loaded.err # NoError
    THEN Released(version, loaded.err.type, filenames, pending, documents,
                  <<>>, <<>>)
    ELSE SavedRelease(version, filenames, pending, documents,
                      Stamped(loaded.self, date), add_ok)

\* release once the version is known
ReleaseOf(version, filenames, pending, documents, date, add_ok) ==
    IF \E l \in glob_blurbs(version, pending, documents) : l # <<>>
    THEN Released(version, "exit", <<>>, pending, documents, <<>>, <<>>)
    ELSE LoadedRelease(version, filenames, pending, documents,
                       IF filenames = <<>>
                       THEN [self |-> NoChanges(version, date), err |-> NoError]
                       ELSE LoadAll(<<>>, filenames, pending),
                       date, add_ok)

\* release(version), for filenames what glob_blurbs('next') returned and
\* date what current_date() returned
release(version, filenames, pending, documents, date, add_ok) ==
    ReleaseOf(IF version = <<".">> THEN Basename(root) ELSE version,
              filenames, pending, documents, date, add_ok)

----------------------------------------------------------------------------
(* blurb._merge: write_news and merge *)

NewsTitle == <<"+","+","+","+","+","+","+","+","+","+","+","\n","P","y","t","h","o","n"," ","N","e","w","s","\n","+","+","+","+","+","+","+","+","+","+","+">>
NewsFooter == <<"*","*","(","F","o","r"," ","i","n","f","o","r","m","a","t","i","o","n"," ","a","b","o","u","t"," ","o","l","d","e","r"," ","v","e","r","s","i","o","n","s",","," ","c","o","n","s","u","l","t"," ","t","h","e"," ","H","I","S","T","O","R","Y"," ","f","i","l","e",".",")","*","*">>
PendingReleaseDate == <<"X","X","X","X","-","X","X","-","X","X">>

\* c * len(s)
Repeat(c, s) == [i \in 1..TextLen(s) |-> c]

\* the 'gh-N: ' or 'bpo-N: ' put in front of a body
IssuePrefix(metadata) ==
    IF Get(metadata, K_gh_issue) # <<>>
    THEN IF IntVal(Get(metadata, K_gh_issue)) # 0
         THEN <<"g", "h", "-">> \o Get(metadata, K_gh_issue) \o <<":", " ">>
         ELSE <<>>
    ELSE IF Get(metadata, K_bpo) # <<>>
    THEN IF IntVal(Get(metadata, K_bpo)) # 0
         THEN <<"b", "p", "o", "-">> \o Get(metadata, K_bpo) \o <<":", " ">>
         ELSE <<>>
    ELSE <<>>

\* last_section = None
NoSection == <<"N", "o", "n", "e">>

\* the loop over the entries of one version: what it hands to prnt
RECURSIVE SectionBullets(_, _)
SectionBullets(blurbs, last_section) ==
    IF blurbs = <<>> THEN <<>>
    ELSE (IF Get(Head(blurbs).metadata, K_section) # last_section
          THEN << Get(Head(blurbs).metadata, K_section),
                  Repeat("-", Get(Head(blurbs).metadata, K_section)),
                  <<>> >>
          ELSE <<>>)
         \o << textwrap_body(<<"-", " ">> \o IssuePrefix(Head(blurbs).metadata)
                                \o Head(blurbs).body,
                             <<" ", " ">>) >>
         \o SectionBullets(Tail(blurbs), Get(Head(blurbs).metadata, K_section))

NewsHeader(version) ==
    <<"W","h","a","t","'","s"," ","N","e","w"," ","i","n"," ","P","y","t","h","o","n"," ">> \o printable_version(version) \o <<"?">>

\* what the body of the loop over the versions hands to prnt for one
\* version with its loaded blurbs, or the exception it raises
VersionItems(version, blurbs) ==
    IF ~HasKey(blurbs[1].metadata, K_release_date)
    THEN [items |-> <<>>,
          err |-> [type |-> "KeyError", what |-> "release date",
                   arg |-> <<>>, line |-> 0]]
    ELSE [items |->
            << <<>>, NewsHeader(version), Repeat("=", NewsHeader(version)),
               <<>>,
               <<"*","R","e","l","e","a","s","e"," ","d","a","t","e",":"," ">> \o Get(blurbs[1].metadata, K_release_date)
                   \o <<"*">>,
               <<>> >>
            \o (IF HasKey(blurbs[1].metadata, K_no_changes)
                THEN <<blurbs[1].body, <<>>>>
                ELSE SectionBullets(blurbs, NoSection)),
          err |-> NoError]

\* one round of the loop over the versions, loaded being what loading the
\* files of the version gave
LoadedVersionItems(version, loaded) ==
    IF loaded.err # NoError THEN [items |-> <<>>, err |-> loaded.err]
    ELSE IF version = V_next
    THEN IF loaded.self = <<>> THEN [items |-> <<>>, err |-> NoError]
         ELSE VersionItems(version, Stamped(loaded.self, PendingReleaseDate))
    ELSE VersionItems(version, loaded.self)

\* the items of one version followed by those of the later versions
PrependItems(items, rest) ==
    IF rest.err # NoError THEN rest
    ELSE [items |-> items \o rest.items, err |-> NoError]

\* the loop over the versions: everything handed to prnt, or the exception
RECURSIVE AllVersionItems(_, _, _, _)
MoreVersionItems(first, versions, filenames, pending, documents) ==
    IF first.err # NoError THEN first
    ELSE PrependItems(first.items,
                      AllVersionItems(versions, filenames, pending, documents))

AllVersionItems(versions, filenames, pending, documents) ==
    IF versions = <<>> THEN [items |-> <<>>, err |-> NoError]
    ELSE MoreVersionItems(
            LoadedVersionItems(Head(versions),
                IF Head(versions) = V_next
                THEN LoadAll(<<>>, filenames, pending)
                ELSE parse(<<>>, ReadFile(documents, DocPath(Head(versions))),
                           <<>>)),
            Tail(versions), filenames, pending, documents)

\* new_contents
NewContents(items) ==
    Join(<<NewsTitle>> \o items \o <<<<>>, NewsFooter>>, <<NL>>)

\* the comparison of write_news finding a difference every time
UpToDate_never(file, new_contents) == FALSE

\* new_contents != previous_contents is false: the output file exists, can
\* be decoded and holds new_contents
UpToDate(file, new_contents) ==
    file.exists /\ file.decodable /\ file.content = new_contents

\* What a merge leaves behind: the output file and the record of the command.
Merged(outcome, file, wrote, rendered) ==
    [news |-> file,
     cmd |-> [op |-> "merge", version |-> <<>>, outcome |-> outcome,
              listed |-> <<>>, saved |-> <<>>, wrote |-> wrote,
              rendered |-> rendered]]

\* write_news from the comparison with the previous contents on
WrittenNews(file, new_contents) ==
    IF UpToDate(file, new_contents)
    THEN Merged("ok", file, FALSE, new_contents)
    ELSE Merged("ok", [exists |-> TRUE, decodable |-> TRUE,
                       content |-> new_contents], TRUE, new_contents)

RenderedNews(file, rendered) ==
    IF rendered.err # NoError
    THEN Merged(rendered.err.type, file, FALSE, <<>>)
    ELSE WrittenNews(file, NewContents(rendered.items))

\* write_news(output, versions=versions), for file the output file before
\* and filenames what glob_blurbs('next') returns
write_news(file, versions, filenames, pending, documents) ==
    RenderedNews(file, AllVersionItems(versions, filenames, pending, documents))

\* merge(forced=forced); require_ok asks until the user types ok, so
\* confirmed tells whether they ever do: if not, the command is
\* interrupted at the prompt and nothing is written
merge(file, versions, filenames, pending, documents, forced, confirmed) ==
    IF versions = <<>> THEN Merged("exit", file, FALSE, <<>>)
    ELSE IF file.exists /\ ~forced /\ ~confirmed
    THEN Merged("aborted", file, FALSE, <<>>)
    ELSE write_news(file, versions, filenames, pending, documents)

----------------------------------------------------------------------------
(* The state of the model, by the part of the program that owns it. Every  *)
(* specification below runs one part and leaves the others idle.           *)

parseVars == <<text, ppc, blurbs1, output, blurbs2>>
storeVars == <<next, docs, news, git_add_files, git_rm_files, cmd>>
codecVars == <<last_entry, fragment_path, built_from, decoded, fpc>>
sectionVars == <<section_arg, resolution>>
versionVars == <<listing, found_versions>>
recordVars == <<initial_metadata, header_lines, body_part, rest_part,
                record_result, rcc>>
reflowVars == <<reflow_text, wrapped_paragraphs, reflowed, reflowed_again,
                rfc>>
globVars == <<glob_result, gbc>>
renderVars == <<render_blurbs, render_items, rdc>>
\* the variables of the specifications that follow the store
addVars == <<edited, add_blurb, add_saved, apc, editor_runs>>
raceVars == <<rel_pc, rel_filenames, rel_blurbs, add_pc, late_paths>>
lastVars == <<addVars, raceVars>>
laterVars == <<recordVars, reflowVars, globVars, renderVars, lastVars>>
vars == <<text, ppc, blurbs1, output, blurbs2,
          next, docs, news, git_add_files, git_rm_files, cmd,
          last_entry, fragment_path, built_from, decoded, fpc,
          section_arg, resolution, listing, found_versions,
          initial_metadata, header_lines, body_part, rest_part,
          record_result, rcc,
          reflow_text, wrapped_paragraphs, reflowed, reflowed_again, rfc,
          glob_result, gbc, render_blurbs, render_items, rdc,
          edited, add_blurb, add_saved, apc, editor_runs,
          rel_pc, rel_filenames, rel_blurbs, add_pc, late_paths>>

NoResult == [self |-> <<>>, err |-> NoError]
NoEntry == [metadata |-> <<>>, body |-> <<>>]
NoFile == [exists |-> FALSE, decodable |-> FALSE, content |-> <<>>]
\* What a command did: its outcome ("ok", "exit" for sys.exit, or the type
\* of the exception that ended it), the pending files it listed, the
\* collection it saved, whether it wrote its output and what it rendered.
NoCmd == [op |-> "none", version |-> <<>>, outcome |-> "", listed |-> <<>>,
          saved |-> <<>>, wrote |-> FALSE, rendered |-> <<>>]
NoResolution == [ok |-> FALSE, name |-> <<>>, what |-> "none", matches |-> <<>>]

ParseIdle ==
    /\ text = <<>>
    /\ ppc = "idle"
    /\ blurbs1 = NoResult
    /\ output = <<>>
    /\ blurbs2 = NoResult

StoreIdle ==
    /\ next = {}
    /\ docs = {}
    /\ news = NoFile
    /\ git_add_files = <<>>
    /\ git_rm_files = <<>>
    /\ cmd = NoCmd

CodecIdle ==
    /\ last_entry = NoEntry
    /\ fragment_path = <<>>
    /\ built_from = <<>>
    /\ decoded = NoMetadata
    /\ fpc = "idle"

SectionIdle ==
    /\ section_arg = <<>>
    /\ resolution = NoResolution

VersionsIdle ==
    /\ listing = {}
    /\ found_versions = <<>>

RecordIdle ==
    /\ initial_metadata = <<>>
    /\ header_lines = <<>>
    /\ body_part = <<>>
    /\ rest_part = <<>>
    /\ record_result = NoResult
    /\ rcc = "idle"

ReflowIdle ==
    /\ reflow_text = <<>>
    /\ wrapped_paragraphs = <<>>
    /\ reflowed = <<>>
    /\ reflowed_again = <<>>
    /\ rfc = "idle"

GlobIdle ==
    /\ glob_result = <<>>
    /\ gbc = "idle"

RenderIdle ==
    /\ render_blurbs = <<>>
    /\ render_items = <<>>
    /\ rdc = "idle"

NoSaved == [path |-> <<>>, err |-> NoError]

AddIdle ==
    /\ edited = <<>>
    /\ add_blurb = NoResult
    /\ add_saved = NoSaved
    /\ apc = "idle"
    /\ editor_runs = 0

RaceIdle ==
    /\ rel_pc = "idle"
    /\ rel_filenames = <<>>
    /\ rel_blurbs = NoResult
    /\ add_pc = <<>>
    /\ late_paths = {}

LastIdle == AddIdle /\ RaceIdle

LaterIdle ==
    RecordIdle /\ ReflowIdle /\ GlobIdle /\ RenderIdle /\ LastIdle

----------------------------------------------------------------------------
(* SpecParse: Blurbs().parse(text), then str() of the result, then the     *)
(* parse of that string, for texts made of up to MaxPieces pieces.         *)

LongWord == "xxxxxxxxxxxxxxxxxxxxxxxxxxxxxxxxxxxxxxxxxxxxxxxxxxxxxxxxxxxxxxxxxxxxxxxxxxx"

MaxPieces == 3

Pieces == {
    \* a valid header
    <<".","."," ","g","h","-","i","s","s","u","e",":"," ","4","0","0","0","0","\n",".","."," ","s","e","c","t","i","o","n",":"," ","L","i","b","r","a","r","y">>,
    \* a body line
    <<"H","e","l","l","o">>,
    \* the record terminator
    <<".",".">>,
    \* a blank line
    <<>>,
    \* a body line that is a metadata line once its indent is stripped
    <<" ",".","."," ","x",":"," ","y">>,
    \* a comment line
    <<"#"," ","c">>,
    \* an indented comment line
    <<" ","#"," ","c">>,
    \* a bpo number
    <<".","."," ","b","p","o",":"," ","5">>,
    \* a gh-issue below the floor
    <<".","."," ","g","h","-","i","s","s","u","e",":"," ","1">>,
    \* a metadata line without a colon
    <<".","."," ","x">>,
    \* a body with a forbidden prefix
    <<"-"," ","x">>,
    \* bodies with other forbidden prefixes, in other capitalisations
    <<"I","s","s","u","e"," ","#","1">>,
    <<"B","P","O","-","1">>,
    <<" ","G","h","-","1">>,
    \* a body line too long for one output line
    <<LongWord, " ", "y", "y">>,
    \* a whole record
    <<".","."," ","g","h","-","i","s","s","u","e",":"," ","4","0","0","0","0","\n",".","."," ","s","e","c","t","i","o","n",":"," ","L","i","b","r","a","r","y","\n","H","e","l","l","o">>
}

ParseInputs ==
    {Join(ps, <<NL>>) : ps \in UNION {[1..n -> Pieces] : n \in 1..MaxPieces}}

InitParse ==
    /\ text \in ParseInputs
    /\ ppc = "start"
    /\ blurbs1 = NoResult
    /\ output = <<>>
    /\ blurbs2 = NoResult
    /\ StoreIdle /\ CodecIdle /\ SectionIdle /\ VersionsIdle /\ LaterIdle

\* blurbs = Blurbs(); blurbs.parse(text)
Parse ==
    /\ ppc = "start"
    /\ blurbs1' = parse(<<>>, text, <<>>)
    /\ ppc' = IF blurbs1'.err = NoError THEN "parsed" ELSE "failed"
    /\ UNCHANGED <<text, output, blurbs2>>
    /\ UNCHANGED <<storeVars, codecVars, sectionVars, versionVars, laterVars>>

\* output = str(blurbs1)
Serialize ==
    /\ ppc = "parsed"
    /\ output' = BlurbsStr(blurbs1.self)
    /\ ppc' = "serialized"
    /\ UNCHANGED <<text, blurbs1, blurbs2>>
    /\ UNCHANGED <<storeVars, codecVars, sectionVars, versionVars, laterVars>>

\* blurbs2 = Blurbs(); blurbs2.parse(output)
Reparse ==
    /\ ppc = "serialized"
    /\ blurbs2' = parse(<<>>, output, <<>>)
    /\ ppc' = "reparsed"
    /\ UNCHANGED <<text, blurbs1, output>>
    /\ UNCHANGED <<storeVars, codecVars, sectionVars, versionVars, laterVars>>

NextParse == Parse \/ Serialize \/ Reparse

SpecParse == InitParse /\ [][NextParse]_vars

\* C1: whenever a collection produced by a successful parse has been
\* serialised with str() and the text parsed again, the second parse
\* succeeds and gives a collection equal to the first: as many records,
\* each with the same metadata pairs and the same body.
C1_RoundTrip ==
    ppc = "reparsed" =>
        /\ blurbs2.err = NoError
        /\ BlurbsEq(blurbs2.self, blurbs1.self)

\* a valid header, and the forbidden prefixes in lower case
ValidHeader ==
    <<".","."," ","g","h","-","i","s","s","u","e",":"," ","4","0","0","0","0","\n",".","."," ","s","e","c","t","i","o","n",":"," ","L","i","b","r","a","r","y">>
ForbiddenPrefixes ==
    {<<"-"," ">>, <<"i","s","s","u","e"," ","#">>, <<"b","p","o","-">>,
     <<"g","h","-">>, <<"g","h","-","i","s","s","u","e","-">>}
\* first body lines that begin with a forbidden prefix
ForbiddenBodies ==
    {<<"-"," ","x">>, <<"I","s","s","u","e"," ","#","1">>, <<"B","P","O","-","1">>, <<" ","G","h","-","1">>}
\* lines that do not begin a body
NoBodyLines == {<<>>, <<"#"," ","c">>}

\* the text begins with a valid header line followed by the line b
BeginsWithBody(b) ==
    \/ text = ValidHeader \o <<NL>> \o b
    \/ StartsWith(text, ValidHeader \o <<NL>> \o b \o <<NL>>)

\* the text is a valid header followed by lines that begin no body
HasNoBody ==
    \/ text = ValidHeader
    \/ \E l \in NoBodyLines : text = ValidHeader \o <<NL>> \o l
    \/ \E l, k \in NoBodyLines :
          text = ValidHeader \o <<NL>> \o l \o <<NL>> \o k

\* C13: the body of every record of a collection a parse returned has
\* text before its end, ends with exactly one newline and begins, in lower
\* case, with none of '- ', 'issue #', 'bpo-', 'gh-' and 'gh-issue-'; and
\* a text whose first record has no body line, or a body whose first line
\* begins with one of these prefixes in any capitalisation, is rejected.
C13_Bodies ==
    /\ ppc \in {"parsed", "serialized", "reparsed"} =>
          \A i \in 1..Len(blurbs1.self) :
             LET body == blurbs1.self[i].body
             IN /\ TextLen(body) >= 2
                /\ EndsWith(body, <<NL>>)
                /\ ~EndsWith(body, <<NL, NL>>)
                /\ \A prefix \in ForbiddenPrefixes :
                      ~StartsWith(Lower(body), prefix)
    /\ (ppc # "start" /\ \E b \in ForbiddenBodies : BeginsWithBody(b)) =>
          /\ ppc = "failed"
          /\ blurbs1.err.what = "body can't start with"
    /\ (ppc # "start" /\ HasNoBody) => ppc = "failed"

\* two records were parsed
C13_Witness ==
    /\ ppc = "parsed"
    /\ Len(blurbs1.self) = 2
    /\ blurbs1.self[2].body = <<"H","e","l","l","o",NL>>

\* C15: a parse that fails raises BlurbError, whatever the text.
C15_OnlyBlurbError ==
    ppc = "failed" => blurbs1.err.type = "BlurbError"


\* C29: when parse raises, the collection holds the records it held before
\* the call: none for a collection that was empty.
C29_FailedParse ==
    ppc = "failed" => blurbs1.self = <<>>

----------------------------------------------------------------------------
(* SpecSection: one call of _extract_section_name, as 'blurb add --section' *)
(* makes it.                                                                *)

Letters == {<<LowerCase[i]>> : i \in 1..26} \cup {<<UpperCase[i]>> : i \in 1..26}

SectionInputs ==
    {sections[i] : i \in 1..Len(sections)}
    \cup {Lower(sections[i]) : i \in 1..Len(sections)}
    \cup {Upper(sections[i]) : i \in 1..Len(sections)}
    \cup {SECTION_ALIASES[i][1] : i \in 1..Len(SECTION_ALIASES)}
    \cup Letters
    \cup {<<>>, <<" ">>, <<" ","L","i","b","r","a","r","y"," ">>, <<"c","_","a","p","i">>, <<"c","o","r","e"," ","a","n","d">>,
          <<"t","o","o","l","s"," ","d","e","m","o","s">>, <<"t","o","o","l","s","d","e","m","o","s">>, <<"m","a","c">>, <<"z","z","z">>, <<"s","/","d">>,
          <<"b","u","i","l">>, <<"-">>, <<"_","_">>, <<"c","o","r","e"," ","b","u","i","l","t","i","n","s">>, <<"c","o","r","e","a","n","d">>, <<"s","-","d">>, <<"l","-","e">>}

InitSection ==
    /\ section_arg \in SectionInputs
    /\ resolution = NoResolution
    /\ ParseIdle /\ StoreIdle /\ CodecIdle /\ VersionsIdle /\ LaterIdle

\* section = _extract_section_name(section)
ExtractSectionName ==
    /\ resolution = NoResolution
    /\ resolution' = _extract_section_name(section_arg)
    /\ UNCHANGED section_arg
    /\ UNCHANGED <<parseVars, storeVars, codecVars, versionVars, laterVars>>

NextSection == ExtractSectionName

SpecSection == InitSection /\ [][NextSection]_vars

\* C9: a canonical section name, written as it is in the catalog, in lower
\* case or in upper case, resolves to exactly that canonical name.
C9_CanonicalNames ==
    \A n \in SectionSet :
        (resolution # NoResolution /\ section_arg \in {n, Lower(n), Upper(n)})
            => resolution = Resolved(n)

C9_Witness ==
    /\ section_arg = Upper(S_Tools_Demos)
    /\ section_arg # S_Tools_Demos
    /\ resolution = Resolved(S_Tools_Demos)

\* C10: the single letters 'c' and 'C' fail as ambiguous listing exactly
\* C API and Core and Builtins, and 't' and 'T' listing exactly Tests and
\* Tools/Demos, in alphabetical order.
C10_SingleLetter ==
    resolution # NoResolution =>
        /\ section_arg \in {<<"c">>, <<"C">>} =>
              resolution = SectionExit("More than one match",
                                       <<S_C_API, S_Core_and_Builtins>>)
        /\ section_arg \in {<<"t">>, <<"T">>} =>
              resolution = SectionExit("More than one match",
                                       <<<<"T","e","s","t","s">>, S_Tools_Demos>>)

\* the words of the stripped input, its separators taken as spaces
WordsOf(section) == SplitWords(Strip(SeparatorsToSpaces(section)))

\* the canonical names rule number r yields for the stripped input: the
\* alias table, the exact match, the case-insensitive exact match, the
\* substring match, the smart pass, the prefix pass
RuleMatches(r, section) ==
    CASE r = 1 -> {SECTION_ALIASES[i][2] :
                      i \in {k \in 1..Len(SECTION_ALIASES) :
                                SECTION_ALIASES[k][1] = Lower(section)}}
      [] r = 2 -> {n \in SectionSet : n = section}
      [] r = 3 -> {n \in SectionSet : Lower(n) = Lower(section)}
      [] r = 4 -> {n \in SectionSet :
                      Len(section) > 1 /\ Contains(Lower(n), Lower(section))}
      [] r = 5 -> {n \in SectionSet :
                      WordsOf(section) # <<>>
                      /\ SearchWords(WordsOf(section), n)}
      [] r = 6 -> {n \in SectionSet :
                      /\ WordsOf(section) # <<>>
                      /\ StartsWith(Lower(OnlyAlnum(n)),
                                    Lower(Join(WordsOf(section), <<>>)))}

\* the rules that yield at least one match
YieldingRules(section) == {r \in 1..6 : RuleMatches(r, section) # {}}

\* the first of them
FirstRule(section) ==
    CHOOSE r \in YieldingRules(section) :
        \A q \in YieldingRules(section) : r <= q

----------------------------------------------------------------------------
(* SpecVersions: glob_versions() over a Misc/NEWS.d that holds up to        *)
(* MaxVersionFiles entries.                                                 *)

MaxVersionFiles == 3

\* Versions a Misc/NEWS.d may hold a document of, each with its place in
\* the order of releases: major, minor, micro, stage (alpha 1, beta 2,
\* release candidate 3, final 4), stage number.
VersionPool == {
    [version |-> <<"3",".","5",".","0","a","1">>,
     rank |-> <<3, 5, 0, 1, 1>>],
    [version |-> <<"3",".","5",".","0","a","2">>,
     rank |-> <<3, 5, 0, 1, 2>>],
    [version |-> <<"3",".","5",".","0","a","1","0">>,
     rank |-> <<3, 5, 0, 1, 10>>],
    [version |-> <<"3",".","5",".","0","b","1">>,
     rank |-> <<3, 5, 0, 2, 1>>],
    [version |-> <<"3",".","5",".","0","r","c","1">>,
     rank |-> <<3, 5, 0, 3, 1>>],
    [version |-> <<"3",".","5",".","0">>,
     rank |-> <<3, 5, 0, 4, 0>>],
    [version |-> <<"3",".","8">>,
     rank |-> <<3, 8, 0, 4, 0>>],
    [version |-> <<"3",".","8",".","0">>,
     rank |-> <<3, 8, 0, 4, 0>>],
    [version |-> <<"3",".","8",".","1">>,
     rank |-> <<3, 8, 1, 4, 0>>],
    [version |-> <<"3",".","9",".","0","b","1">>,
     rank |-> <<3, 9, 0, 2, 1>>],
    [version |-> <<"3",".","1","2",".","0","a","1">>,
     rank |-> <<3, 12, 0, 1, 1>>],
    [version |-> <<"2",".","7">>,
     rank |-> <<2, 7, 0, 4, 0>>],
    [version |-> <<"4",".","0">>,
     rank |-> <<4, 0, 0, 4, 0>>]
}

VersionEntries == {v.version \o Ext_rst : v \in VersionPool} \cup {V_next}

InitVersions ==
    /\ listing \in {l \in SUBSET VersionEntries : Cardinality(l) <= MaxVersionFiles}
    /\ found_versions = [done |-> FALSE, list |-> <<>>]
    /\ ParseIdle /\ StoreIdle /\ CodecIdle /\ SectionIdle /\ LaterIdle

\* versions = glob_versions()
GlobVersions ==
    /\ ~found_versions.done
    /\ \E result \in GlobVersionsResults(listing) :
          found_versions' = [done |-> TRUE, list |-> result]
    /\ UNCHANGED listing
    /\ UNCHANGED <<parseVars, storeVars, codecVars, sectionVars, laterVars>>

NextVersions == GlobVersions

SpecVersions == InitVersions /\ [][NextVersions]_vars

RankOf(version) == (CHOOSE v \in VersionPool : v.version = version).rank

\* rank r is not older than rank q
RECURSIVE RankGeq(_, _)
RankGeq(r, q) ==
    \/ r = <<>>
    \/ Head(r) > Head(q)
    \/ Head(r) = Head(q) /\ RankGeq(Tail(r), Tail(q))

\* C6: glob_versions returns the versions it discovers (the 2.* and 3.*
\* documents and 'next'), each once, newest first: 'next' before every
\* released version, and the released versions in descending order of
\* their numeric components, then stage, then stage number.
C6_NewestFirst ==
    found_versions.done =>
        LET l == found_versions.list
        IN /\ {l[i] : i \in 1..Len(l)} =
                {Partition(n, Ext_rst)[1] : n \in {m \in listing :
                    \/ m = V_next
                    \/ MatchesVersionGlob(m, "2")
                    \/ MatchesVersionGlob(m, "3")}}
           /\ \A i, j \in 1..Len(l) : i < j =>
                /\ l[i] # l[j]
                /\ l[j] # V_next
                /\ l[i] # V_next => RankGeq(RankOf(l[i]), RankOf(l[j]))

C6_Witness ==
    /\ found_versions.done
    /\ found_versions.list = <<V_next, <<"3",".","1","2",".","0","a","1">>, <<"3",".","9",".","0","b","1">>>>

----------------------------------------------------------------------------
(* SpecCodec: the "next" filename codec. A record is encoded with           *)
(* _extract_next_filename and the path decoded with _parse_next_filename;   *)
(* a fragment file of the pending store is loaded with load_next and the    *)
(* loaded record encoded again.                                             *)

D_date == <<"2","0","2","4","-","0","1","-","0","2","-","0","3","-","0","4","-","0","5">>
D_now == <<"2","0","2","5","-","0","6","-","0","7","-","0","8","-","0","9","-","1","0">>
D_nonce == <<"A","b","C","d","_","-">>
N_gh == <<"4","0","0","0","0">>
N_bpo == <<"5">>
Body_Hello == <<"H","e","l","l","o","\n">>

\* the values a metadata field of a record may have, <<>> for a missing key
CodecGh == {<<>>, <<"0">>, N_gh, <<"x">>}
CodecBpo == {<<>>, <<"0">>, N_bpo}
CodecDate == {<<>>, D_date}
CodecNonce == {<<>>, D_nonce}

Item(name, value) == IF value = <<>> THEN <<>> ELSE << <<name, value>> >>

CodecEntries ==
    {[metadata |-> Item(K_gh_issue, gh) \o Item(K_bpo, bpo)
                   \o Item(K_section, section) \o Item(K_date, date)
                   \o Item(K_nonce, nonce),
      body |-> Body_Hello] :
        gh \in CodecGh, bpo \in CodecBpo, section \in SectionSet \cup {<<>>},
        date \in CodecDate, nonce \in CodecNonce}

\* Each canonical section with the directory names of its two forms.
DirForms == {
    [section |-> <<"S","e","c","u","r","i","t","y">>,
     current |-> <<"S","e","c","u","r","i","t","y">>,
     legacy |-> <<"S","e","c","u","r","i","t","y">>],
    [section |-> <<"C","o","r","e"," ","a","n","d"," ","B","u","i","l","t","i","n","s">>,
     current |-> <<"C","o","r","e","_","a","n","d","_","B","u","i","l","t","i","n","s">>,
     legacy |-> <<"C","o","r","e"," ","a","n","d"," ","B","u","i","l","t","i","n","s">>],
    [section |-> <<"L","i","b","r","a","r","y">>,
     current |-> <<"L","i","b","r","a","r","y">>,
     legacy |-> <<"L","i","b","r","a","r","y">>],
    [section |-> <<"D","o","c","u","m","e","n","t","a","t","i","o","n">>,
     current |-> <<"D","o","c","u","m","e","n","t","a","t","i","o","n">>,
     legacy |-> <<"D","o","c","u","m","e","n","t","a","t","i","o","n">>],
    [section |-> <<"T","e","s","t","s">>,
     current |-> <<"T","e","s","t","s">>,
     legacy |-> <<"T","e","s","t","s">>],
    [section |-> <<"B","u","i","l","d">>,
     current |-> <<"B","u","i","l","d">>,
     legacy |-> <<"B","u","i","l","d">>],
    [section |-> <<"W","i","n","d","o","w","s">>,
     current |-> <<"W","i","n","d","o","w","s">>,
     legacy |-> <<"W","i","n","d","o","w","s">>],
    [section |-> <<"m","a","c","O","S">>,
     current |-> <<"m","a","c","O","S">>,
     legacy |-> <<"m","a","c","O","S">>],
    [section |-> <<"I","D","L","E">>,
     current |-> <<"I","D","L","E">>,
     legacy |-> <<"I","D","L","E">>],
    [section |-> <<"T","o","o","l","s","/","D","e","m","o","s">>,
     current |-> <<"T","o","o","l","s","-","D","e","m","o","s">>,
     legacy |-> <<"T","o","o","l","s","-","D","e","m","o","s">>],
    [section |-> <<"C"," ","A","P","I">>,
     current |-> <<"C","_","A","P","I">>,
     legacy |-> <<"C"," ","A","P","I">>]
}

FragmentDirs == {f.current : f \in DirForms} \cup {f.legacy : f \in DirForms}

\* the names of fragment files: issue numbers the tool accepts, a gh-issue
\* number below the floor, and a zero bpo number
FragmentNames ==
    {D_date \o <<".">> \o issue \o <<".">> \o D_nonce \o Ext_rst :
        issue \in {<<"g","h","-","i","s","s","u","e","-","4","0","0","0","0">>, <<"b","p","o","-","5">>, <<"g","h","-","i","s","s","u","e","-","1">>, <<"b","p","o","-","0">>}}

CodecFiles ==
    {[path |-> NextBase \o <<"/">> \o dir \o <<"/">> \o name,
      content |-> Body_Hello] : dir \in FragmentDirs, name \in FragmentNames}

InitCodec ==
    /\ \/ /\ last_entry \in CodecEntries
          /\ fragment_path = <<>>
          /\ next = {}
          /\ fpc = "entry"
       \/ /\ last_entry = NoEntry
          /\ \E f \in CodecFiles : next = {f} /\ fragment_path = f.path
          /\ fpc = "file"
    /\ built_from = <<>>
    /\ decoded = NoMetadata
    /\ docs = {}
    /\ news = NoFile
    /\ git_add_files = <<>>
    /\ git_rm_files = <<>>
    /\ cmd = NoCmd
    /\ ParseIdle /\ SectionIdle /\ VersionsIdle /\ LaterIdle

\* blurbs = Blurbs(); blurbs.load_next(fragment_path)
LoadNext ==
    /\ fpc = "file"
    /\ LET r == load_next(<<>>, fragment_path, ReadFile(next, fragment_path))
       IN IF r.err = NoError
          THEN /\ last_entry' = r.self[1]
               /\ decoded' = [metadata |-> r.self[1].metadata, err |-> NoError]
               /\ fpc' = "loaded"
          ELSE /\ last_entry' = last_entry
               /\ decoded' = [metadata |-> <<>>, err |-> r.err]
               /\ fpc' = "load failed"
    /\ UNCHANGED <<fragment_path, built_from>>
    /\ UNCHANGED <<parseVars, storeVars, sectionVars, versionVars, laterVars>>

\* fragment_path = blurbs._extract_next_filename()
ExtractNextFilename ==
    /\ fpc \in {"entry", "loaded"}
    /\ \E now \in {D_now} :
          LET r == _extract_next_filename(last_entry, now)
          IN /\ last_entry' = [last_entry EXCEPT !.metadata = r.metadata]
             /\ IF r.err = NoError
                THEN /\ fragment_path' = r.path
                     /\ built_from' = ensure_metadata(last_entry.metadata,
                                                      last_entry.body, now)
                     /\ decoded' = decoded
                     /\ fpc' = IF fpc = "entry" THEN "extracted"
                               ELSE "extracted again"
                ELSE /\ fragment_path' = fragment_path
                     /\ built_from' = built_from
                     /\ decoded' = [metadata |-> <<>>, err |-> r.err]
                     /\ fpc' = "extract failed"
    /\ UNCHANGED <<parseVars, storeVars, sectionVars, versionVars, laterVars>>

\* decoded = blurbs._parse_next_filename(fragment_path)
ParseNextFilename ==
    /\ fpc = "extracted"
    /\ decoded' = _parse_next_filename(fragment_path)
    /\ fpc' = "decoded"
    /\ UNCHANGED <<last_entry, fragment_path, built_from>>
    /\ UNCHANGED <<parseVars, storeVars, sectionVars, versionVars, laterVars>>

NextCodec == LoadNext \/ ExtractNextFilename \/ ParseNextFilename

SpecCodec == InitCodec /\ [][NextCodec]_vars

\* the issue field a path is built with: gh-issue when its number is
\* positive, bpo otherwise
UsedIssueField(m) ==
    IF IsInt(Get(m, K_gh_issue)) /\ IntVal(Get(m, K_gh_issue)) > 0
    THEN K_gh_issue ELSE K_bpo

\* C7: when the path built by _extract_next_filename for a record with a
\* catalog section and a positive gh-issue or bpo number is decoded with
\* _parse_next_filename, the decoding succeeds and gives exactly the
\* section, date, nonce and issue field and number the path was built
\* from, the issue field being gh-issue whenever that number is positive.
C7_CodecInverse ==
    fpc = "decoded" =>
        /\ decoded.err = NoError
        /\ DictEq(decoded.metadata,
                  << <<K_section, Get(built_from, K_section)>>,
                     <<K_date, Get(built_from, K_date)>>,
                     <<K_nonce, Get(built_from, K_nonce)>>,
                     <<UsedIssueField(built_from),
                       Get(built_from, UsedIssueField(built_from))>> >>)

\* a record with both numbers positive, no date and no nonce of its own,
\* in a section whose directory name differs from its name
C7_Witness ==
    /\ fpc = "decoded"
    /\ Get(built_from, K_section) = S_Tools_Demos
    /\ Get(built_from, K_gh_issue) = N_gh
    /\ Get(built_from, K_bpo) = N_bpo
    /\ Get(built_from, K_date) = D_now
    /\ Get(decoded.metadata, K_gh_issue) = N_gh

\* the form record of the directory a pending path lies in
FormOf(path) ==
    LET c == Split(path, <<"/">>)
    IN CHOOSE f \in DirForms : c[Len(c) - 1] \in {f.current, f.legacy}

\* the fragment file of the pending store
TheFragment == CHOOSE f \in next : TRUE

\* the issue number in the name of a fragment file is one the tool writes
WrittenByTool(path) ==
    \/ Contains(path, <<".">> \o K_gh_issue \o <<"-">> \o N_gh \o <<".">>)
    \/ Contains(path, <<".">> \o K_bpo \o <<"-">> \o N_bpo \o <<".">>)

----------------------------------------------------------------------------
(* Spec: the fragment store under the release and merge commands. The       *)
(* pending store starts with up to MaxPending of the files of Fragments,    *)
(* with or without a README.rst; no version has a document yet.             *)

MaxPending == 2

\* Fragments of the pending store: one stored under both directory forms
\* of its section, one with a bpo number, and one whose body is an
\* indented comment line.
Fragments == {
    [path |-> <<"M","i","s","c","/","N","E","W","S",".","d","/","n","e","x","t","/","C","o","r","e","_","a","n","d","_","B","u","i","l","t","i","n","s","/","2","0","2","4","-","0","1","-","0","1","-","0","0","-","0","0","-","0","0",".","g","h","-","i","s","s","u","e","-","4","0","0","0","1",".","Z","z","0","0","1","1",".","r","s","t">>,
     content |-> <<"F","i","x"," ","b",".","\n">>],
    [path |-> <<"M","i","s","c","/","N","E","W","S",".","d","/","n","e","x","t","/","C","o","r","e"," ","a","n","d"," ","B","u","i","l","t","i","n","s","/","2","0","2","4","-","0","1","-","0","1","-","0","0","-","0","0","-","0","0",".","g","h","-","i","s","s","u","e","-","4","0","0","0","1",".","Z","z","0","0","1","1",".","r","s","t">>,
     content |-> <<"F","i","x"," ","b",".","\n">>],
    [path |-> <<"M","i","s","c","/","N","E","W","S",".","d","/","n","e","x","t","/","T","o","o","l","s","-","D","e","m","o","s","/","2","0","2","4","-","0","2","-","0","1","-","0","0","-","0","0","-","0","0",".","b","p","o","-","5",".","Q","q","2","2","3","3",".","r","s","t">>,
     content |-> <<"F","i","x"," ","c",".","\n">>],
    [path |-> <<"M","i","s","c","/","N","E","W","S",".","d","/","n","e","x","t","/","L","i","b","r","a","r","y","/","2","0","2","4","-","0","3","-","0","1","-","0","0","-","0","0","-","0","0",".","g","h","-","i","s","s","u","e","-","4","0","0","0","2",".","W","w","4","4","5","5",".","r","s","t">>,
     content |-> <<" ","#"," ","F","i","x"," ","d",".","\n">>]
}

\* the README.rst of a section directory
ReadmeFile ==
    [path |-> <<"M","i","s","c","/","N","E","W","S",".","d","/","n","e","x","t","/","L","i","b","r","a","r","y","/","R","E","A","D","M","E",".","r","s","t">>,
     content |-> <<"P","u","t"," ","n","e","w","s"," ","e","n","t","r","y"," ","f","i","l","e","s"," ","h","e","r","e",".","\n">>]

D_today == <<"2","0","2","5","-","0","6","-","0","7">>

ReleaseVersions == {<<"3",".","1","2",".","0">>, <<".">>}

\* what Misc/NEWS may hold at the start: nothing, or bytes that are not
\* UTF-8
InitialNews ==
    {NoFile, [exists |-> TRUE, decodable |-> FALSE, content |-> <<>>]}

Init ==
    /\ \E p \in SUBSET Fragments, r \in SUBSET {ReadmeFile} :
          /\ Cardinality(p) <= MaxPending
          /\ next = p \cup r
    /\ docs = {}
    /\ news \in InitialNews
    /\ git_add_files = <<>>
    /\ git_rm_files = <<>>
    /\ cmd = NoCmd
    /\ ParseIdle /\ CodecIdle /\ SectionIdle /\ VersionsIdle /\ LaterIdle

\* the state a release command leaves behind
AfterRelease(r) ==
    /\ next' = r.next
    /\ docs' = r.docs
    /\ git_add_files' = r.git_add_files
    /\ git_rm_files' = r.git_rm_files
    /\ cmd' = r.cmd

\* blurb release <version>
Release ==
    /\ \E version \in ReleaseVersions, add_ok \in BOOLEAN :
          \E filenames \in glob_blurbs(V_next, next, docs) :
             AfterRelease(release(version, filenames, next, docs,
                                  D_today, add_ok))
    /\ UNCHANGED news
    /\ UNCHANGED <<parseVars, codecVars, sectionVars, versionVars, laterVars>>

\* the state a merge command leaves behind
AfterMerge(r) ==
    /\ news' = r.news
    /\ cmd' = r.cmd

\* the entries of Misc/NEWS.d
NewsDirEntries(documents, has_next) ==
    {Basename(f.path) : f \in documents}
    \cup (IF has_next THEN {V_next} ELSE {})

\* blurb merge [-f]; the directory next is there as long as it holds a
\* file, and may or may not be there once it is empty; the prompt is
\* answered only when it is shown
Merge ==
    /\ \E forced \in BOOLEAN,
          has_next \in (IF next # {} THEN {TRUE} ELSE BOOLEAN) :
          \E confirmed \in (IF news.exists /\ ~forced THEN BOOLEAN
                                                      ELSE {TRUE}),
             found \in GlobVersionsResults(NewsDirEntries(docs, has_next)),
             filenames \in glob_blurbs(V_next, next, docs) :
             AfterMerge(merge(news, found, filenames, next, docs,
                              forced, confirmed))
    /\ git_add_files' = <<>>
    /\ git_rm_files' = <<>>
    /\ UNCHANGED <<next, docs>>
    /\ UNCHANGED <<parseVars, codecVars, sectionVars, versionVars, laterVars>>

Next == Release \/ Merge

Spec == Init /\ [][Next]_vars

----------------------------------------------------------------------------
(* Properties of release and merge, stated on the steps of Spec: cmd' is    *)
(* the record of the command a step ran, the unprimed variables are the     *)
(* store it ran on.                                                         *)

\* the fragment files of a pending store, README.rst files left out
FragmentPaths(pending) ==
    {f.path : f \in {g \in pending : Basename(g.path) # README}}

\* the name of the fragment file a record of a document came from
NameOfRecord(m) ==
    Get(m, K_date) \o <<".">>
    \o (IF HasKey(m, K_gh_issue)
        THEN K_gh_issue \o <<"-">> \o Get(m, K_gh_issue)
        ELSE K_bpo \o <<"-">> \o Get(m, K_bpo))
    \o <<".">> \o Get(m, K_nonce) \o Ext_rst

\* record e of a document is the fragment stored at path in pending
RecordOfFragment(e, path, pending) ==
    /\ Get(e.metadata, K_section) = FormOf(path).section
    /\ NameOfRecord(e.metadata) = Basename(path)
    /\ e.body = ReadFile(pending, path)

\* the command of this step is a release that git did not fail
ReleaseStep ==
    cmd'.op = "release" /\ cmd'.outcome # "CalledProcessError"

\* C2: a release on a store with no pending fragment and no document for
\* the version writes the document of the version with a single record
\* that has `no changes` set, gh-issue 0 and today's release date, and
\* the reload of that document at the end of the command succeeds and
\* equals what was written, so that the command ends normally.
C2_NoChangesRelease ==
    [][(ReleaseStep /\ FragmentPaths(next) = {}
        /\ ~(\E f \in docs : f.path = DocPath(cmd'.version))) =>
          /\ \E f \in docs' : f.path = DocPath(cmd'.version)
          /\ Len(cmd'.saved) = 1
          /\ ReadFile(docs', DocPath(cmd'.version)) = BlurbsStr(cmd'.saved)
          /\ Get(cmd'.saved[1].metadata, K_no_changes) = <<"T","r","u","e">>
          /\ Get(cmd'.saved[1].metadata, K_gh_issue) = <<"0">>
          /\ Get(cmd'.saved[1].metadata, K_release_date) = D_today
          /\ cmd'.outcome = "ok"]_vars

\* what C3 says of a release step: pending is the store before, document
\* what loading the document of the version gives after
ReleasedAll(listed, pending, pending2, document) ==
    /\ document.err = NoError
    /\ Len(document.self) = Len(listed)
    /\ {listed[i] : i \in 1..Len(listed)} = FragmentPaths(pending)
    /\ \A i \in 1..Len(listed) :
          /\ RecordOfFragment(document.self[i], listed[i], pending)
          /\ HasKey(document.self[i].metadata, K_release_date) <=> i = 1
          /\ ~(\E f \in pending2 : f.path = listed[i])
    /\ Get(document.self[1].metadata, K_release_date) = D_today
    /\ \A f \in pending :
          Basename(f.path) = README =>
             /\ f \in pending2
             /\ \A i \in 1..Len(listed) : listed[i] # f.path

\* C3: when release(v) ends normally on a store with n >= 1 pending
\* fragments and no document for v, the document of v exists and loads as
\* exactly n records, record i being the fragment that glob_blurbs('next')
\* listed at position i, the release date is on the first record and on
\* no other, none of the n fragment files is left in the pending store,
\* and every README.rst is still there and was not among the files loaded.
C3_Release ==
    [][(ReleaseStep /\ cmd'.outcome = "ok" /\ FragmentPaths(next) # {}
        /\ ~(\E f \in docs : f.path = DocPath(cmd'.version))) =>
          /\ \E f \in docs' : f.path = DocPath(cmd'.version)
          /\ ReleasedAll(cmd'.listed, next, next',
                         parse(<<>>, ReadFile(docs', DocPath(cmd'.version)),
                               <<>>))]_vars

\* a release of two fragments next to a README.rst has ended normally
C3_Witness ==
    /\ cmd.op = "release" /\ cmd.outcome = "ok"
    /\ Len(cmd.listed) = 2
    /\ Len(cmd.saved) = 2
    /\ next = {ReadmeFile}
    /\ \E f \in docs : f.path = DocPath(cmd.version)

\* C4: a release of a version that has a document ends with the error
\* exit and leaves everything as it was: the documents and the pending
\* store are unchanged, no fragment was listed or loaded, nothing was
\* saved, and nothing is in the lists of files to add or to remove.
C4_ExistingDocument ==
    [][(cmd'.op = "release"
        /\ \E f \in docs : f.path = DocPath(cmd'.version)) =>
          /\ cmd'.outcome = "exit"
          /\ docs' = docs /\ next' = next /\ news' = news
          /\ cmd'.listed = <<>> /\ cmd'.saved = <<>> /\ ~cmd'.wrote
          /\ git_add_files' = <<>> /\ git_rm_files' = <<>>]_vars

\* a release was refused while fragments are pending and the version has
\* a document
C4_Witness ==
    /\ cmd.op = "release" /\ cmd.outcome = "exit"
    /\ FragmentPaths(next) # {}
    /\ \E f \in docs : f.path = DocPath(cmd.version)

RemovedAreKept(pending, pending2, document) ==
    /\ document.err = NoError
    /\ \A path \in FragmentPaths(pending) \ FragmentPaths(pending2) :
          \E i \in 1..Len(document.self) :
             RecordOfFragment(document.self[i], path, pending)

\* C25: when a release ends with an error or a failed self-check, either
\* no pending fragment file has been removed, or the document of the
\* version loads without error and holds every removed fragment.
C25_NoLoss ==
    [][(cmd'.op = "release" /\ cmd'.outcome # "ok") =>
          \/ FragmentPaths(next') = FragmentPaths(next)
          \/ /\ \E f \in docs' : f.path = DocPath(cmd'.version)
             /\ RemovedAreKept(next, next',
                    parse(<<>>, ReadFile(docs', DocPath(cmd'.version)),
                          <<>>))]_vars

\* what write_news hands to prnt for a version after the title of the
\* version and the line of the release date
EntriesOf(rendered) == SubSeq(rendered.items, 7, Len(rendered.items))

\* both renderings succeed and have the same section headers and bullets
\* in the same order, at least one
SameEntries(before, after) ==
    /\ before.err = NoError
    /\ after.err = NoError
    /\ Len(before.items) > 6
    /\ EntriesOf(before) = EntriesOf(after)

C27_Discovered ==
    [][(cmd.op = "release" /\ cmd.outcome = "ok"
        /\ cmd'.op = "merge" /\ cmd'.outcome = "ok") =>
          Contains(cmd'.rendered, NewsHeader(cmd.version))]_vars

----------------------------------------------------------------------------
(* SpecRecord: Blurbs.parse on texts of one or two records, the first one   *)
(* put together from up to MaxHeaderLines metadata lines and a body, with   *)
(* or without metadata handed in by the caller as load_next does.           *)

MaxHeaderLines == 3

\* Metadata lines: the key and the value parse is to find, the line as
\* written, and whether the value reads as an integer and as which.
L_gh_32425 ==
    [name |-> K_gh_issue, value |-> <<"3","2","4","2","5">>,
     written |-> <<".","."," ","g","h","-","i","s","s","u","e",":"," ","3","2","4","2","5">>,
     isint |-> TRUE, number |-> 32425]

L_gh_32426 ==
    [name |-> K_gh_issue, value |-> <<"3","2","4","2","6">>,
     written |-> <<".","."," ","g","h","-","i","s","s","u","e",":"," ","3","2","4","2","6">>,
     isint |-> TRUE, number |-> 32426]

L_gh_x ==
    [name |-> K_gh_issue, value |-> <<"x">>,
     written |-> <<".","."," ","g","h","-","i","s","s","u","e",":"," ","x">>,
     isint |-> FALSE, number |-> 0]

L_bpo_minus7 ==
    [name |-> K_bpo, value |-> <<"-","7">>,
     written |-> <<".","."," ","b","p","o",":"," ","-","7">>,
     isint |-> TRUE, number |-> -7]

L_bpo_y ==
    [name |-> K_bpo, value |-> <<"y">>,
     written |-> <<".","."," ","b","p","o",":"," ","y">>,
     isint |-> FALSE, number |-> 0]

L_section ==
    [name |-> K_section, value |-> <<"L","i","b","r","a","r","y">>,
     written |-> <<".","."," ","s","e","c","t","i","o","n",":"," ","L","i","b","r","a","r","y">>,
     isint |-> FALSE, number |-> 0]

L_Section ==
    [name |-> K_section, value |-> <<"L","i","b","r","a","r","y">>,
     written |-> <<".","."," "," ","S","e","c","t","i","o","n"," ",":"," ","L","i","b","r","a","r","y">>,
     isint |-> FALSE, number |-> 0]

L_no_changes ==
    [name |-> K_no_changes, value |-> <<"T","r","u","e">>,
     written |-> <<".","."," ","n","o"," ","c","h","a","n","g","e","s",":"," ","T","r","u","e">>,
     isint |-> FALSE, number |-> 0]

L_gh_0 ==
    [name |-> K_gh_issue, value |-> <<"0">>,
     written |-> <<".","."," ","g","h","-","i","s","s","u","e",":"," ","0">>,
     isint |-> TRUE, number |-> 0]

L_bpo_0 ==
    [name |-> K_bpo, value |-> <<"0">>,
     written |-> <<".","."," ","b","p","o",":"," ","0">>,
     isint |-> TRUE, number |-> 0]

HeaderPool ==
    {L_gh_32425, L_gh_32426, L_gh_0, L_gh_x, L_bpo_minus7, L_bpo_0, L_bpo_y,
     L_section, L_Section, L_no_changes}

\* a body after a comment and a blank line, with a comment line and a line
\* in the form of a metadata line in it
Body_Mixed ==
    <<<<"#"," ","c">>,
      <<>>,
      <<"H","e","l","l","o"," "," ">>,
      <<"#"," ","d">>,
      <<".","."," ","b","p","o",":"," ","7">>>>

BodyPool == {<< >>, << <<"H","e","l","l","o">> >>, Body_Mixed}

\* a second record after the terminator, with names the first one may
\* have used
SecondRecord ==
    <<<<".",".">>, <<".","."," ","g","h","-","i","s","s","u","e",":"," ","4","0","0","0","0">>, <<".","."," ","s","e","c","t","i","o","n",":"," ","L","i","b","r","a","r","y">>, <<"M","o","r","e">>>>

\* what load_next hands to parse for a fragment file
FilenameMetadata ==
    _parse_next_filename(<<"M","i","s","c","/","N","E","W","S",".","d","/","n","e","x","t","/","L","i","b","r","a","r","y","/","2","0","2","4","-","0","1","-","0","2","-","0","3","-","0","4","-","0","5",".","g","h","-","i","s","s","u","e","-","4","0","0","0","0",".","A","b","C","d","_","-",".","r","s","t">>).metadata

\* the text of the records
RecordText(header, body, rest) ==
    Join([i \in 1..Len(header) |-> header[i].written] \o body \o rest,
         <<NL>>)

InitRecord ==
    /\ initial_metadata \in {<<>>, FilenameMetadata}
    /\ header_lines \in UNION {[1..n -> HeaderPool] : n \in 0..MaxHeaderLines}
    /\ body_part \in BodyPool
    /\ rest_part \in {<<>>, SecondRecord}
    /\ record_result = NoResult
    /\ rcc = "start"
    /\ ParseIdle /\ StoreIdle /\ CodecIdle /\ SectionIdle /\ VersionsIdle
    /\ ReflowIdle /\ GlobIdle /\ RenderIdle /\ LastIdle

\* blurbs = Blurbs(); blurbs.parse(text, metadata=initial_metadata)
ParseRecord ==
    /\ rcc = "start"
    /\ record_result' = parse(<<>>,
                              RecordText(header_lines, body_part, rest_part),
                              initial_metadata)
    /\ rcc' = "done"
    /\ UNCHANGED <<initial_metadata, header_lines, body_part, rest_part>>
    /\ UNCHANGED <<parseVars, storeVars, codecVars, sectionVars, versionVars,
                   reflowVars, globVars, renderVars, lastVars>>

NextRecord == ParseRecord

SpecRecord == InitRecord /\ [][NextRecord]_vars

\* the lines of the header that set the key name
LinesOf(name) == {i \in 1..Len(header_lines) : header_lines[i].name = name}

\* the least number of a non-empty set of numbers
Least(S) == CHOOSE i \in S : \A j \in S : i <= j

\* the first record has a body, the caller gave no metadata and no key is
\* set twice
PlainRecord ==
    /\ initial_metadata = <<>>
    /\ body_part # <<>>
    /\ \A name \in {K_gh_issue, K_bpo, K_section, K_no_changes} :
          Cardinality(LinesOf(name)) <= 1

\* the issue lines whose value parse has to refuse
RefusedLines ==
    {i \in LinesOf(K_gh_issue) \cup LinesOf(K_bpo) :
        \/ ~header_lines[i].isint
        \/ header_lines[i].name = K_gh_issue /\ header_lines[i].number < 32426}

\* the error C11 asks for the issue line l
RefusalOf(l) ==
    IF ~l.isint
    THEN IF l.name = K_gh_issue THEN "Invalid GitHub number"
                                ELSE "Invalid bpo number"
    ELSE "Invalid gh-issue number (must be >= floor)"

C12_OneIssueKey ==
    (rcc = "done" /\ initial_metadata = <<>> /\ body_part # <<>>) =>
        ((\/ LinesOf(K_gh_issue) = {} /\ LinesOf(K_bpo) = {}
          \/ LinesOf(K_gh_issue) # {} /\ LinesOf(K_bpo) # {}
          \/ LinesOf(K_section) = {}) =>
            record_result.err.type = "BlurbError")

\* the names the record has when its line i is read
NamesBefore(i) ==
    {initial_metadata[k][1] : k \in 1..Len(initial_metadata)}
    \cup {header_lines[j].name : j \in 1..(i - 1)}

\* the lines of the header that set a name the record already has
SecondSettings ==
    {i \in 1..Len(header_lines) : header_lines[i].name \in NamesBefore(i)}

\* C14: the first line of a record that sets a name the record already
\* has, from an earlier line or from the metadata the caller handed in,
\* the names compared trimmed and in lower case, ends the parse with the
\* error that names it and no record appended; without such a line that
\* error is not raised, and a valid first record followed by a second one
\* that sets the same names again parses to two records.
C14_SetOnce ==
    rcc = "done" =>
        IF SecondSettings # {}
        THEN /\ record_result.err.type = "BlurbError"
             /\ record_result.err.what = "metadata sets name twice"
             /\ record_result.err.arg = header_lines[Least(SecondSettings)].name
             /\ record_result.err.line = Least(SecondSettings) - 1
             /\ record_result.self = <<>>
        ELSE /\ record_result.err.what # "metadata sets name twice"
             /\ (header_lines = <<L_gh_32426, L_section>>
                 /\ initial_metadata = <<>> /\ body_part # <<>>
                 /\ rest_part = SecondRecord) =>
                    /\ record_result.err = NoError
                    /\ Len(record_result.self) = 2

\* a line of a fragment sets a key that came from the name of its file
C14_Witness ==
    /\ rcc = "done"
    /\ initial_metadata = FilenameMetadata
    /\ header_lines = <<L_bpo_0, L_Section>>
    /\ record_result.err.what = "metadata sets name twice"
    /\ record_result.err.arg = K_section

\* C17: in a collection a parse returned, a record that has `no changes`
\* is the only record and its gh-issue is 0.
C17_NoChangesAlone ==
    (rcc = "done" /\ record_result.err = NoError) =>
        \A i \in 1..Len(record_result.self) :
            HasKey(record_result.self[i].metadata, K_no_changes) =>
                /\ Len(record_result.self) = 1
                /\ Get(record_result.self[i].metadata, K_gh_issue) = <<"0">>

\* the lines of the text, without their trailing whitespace
TextLines ==
    LET lines == Split(RecordText(header_lines, body_part, rest_part), <<NL>>)
    IN [i \in 1..Len(lines) |-> RStrip(lines[i])]

\* the lines that are not blank, no comment and no metadata line
BodyStarts(lines) ==
    {i \in 1..Len(lines) :
        /\ lines[i] # <<>>
        /\ ~StartsWith(lines[i], <<"#">>)
        /\ ~StartsWith(lines[i], <<".", ".">>)}

\* the terminator lines after line first, and the place after the last line
BodyEnds(lines, first) ==
    {j \in 1..Len(lines) : j > first /\ lines[j] = <<".", ".">>}
    \cup {Len(lines) + 1}

\* the lines of the text from the first body line up to its terminator
BodyOf(lines, first) ==
    SubSeq(lines, first, Least(BodyEnds(lines, first)) - 1)

\* the first record has the lines of BodyOf for a body and the metadata
\* of the header
FirstRecordOf(lines) ==
    BodyStarts(lines) # {} =>
        /\ record_result.self[1].body
              = textwrap_body_lines(BodyOf(lines, Least(BodyStarts(lines))))
        /\ record_result.self[1].metadata
              = initial_metadata
                \o [i \in 1..Len(header_lines) |->
                       <<header_lines[i].name, header_lines[i].value>>]

\* C23: the body of the first record is made of all the lines from the
\* first line that is not blank, no '#' comment and no '..' line up to the
\* first line after it that is '..' or to the end of the text, comment
\* lines and lines in the form of a metadata line among them, and its
\* metadata is set by the lines before that first body line alone.
C23_BodyMode ==
    (rcc = "done" /\ Len(record_result.self) >= 1) => FirstRecordOf(TextLines)

\* a record whose body holds a comment line and '.. bpo: 7' is parsed
\* without a bpo key
C23_Witness ==
    /\ rcc = "done"
    /\ body_part = Body_Mixed
    /\ header_lines = <<L_gh_32426, L_section>>
    /\ record_result.err = NoError
    /\ Len(record_result.self) >= 1
    /\ ~HasKey(record_result.self[1].metadata, K_bpo)
    /\ Contains(record_result.self[1].body, <<".", ".", " ", "b", "p", "o">>)

\* the lines of the header that have a problem: a value parse refuses or
\* a name the record already has
ProblemLines == RefusedLines \cup SecondSettings

\* C22: of the problems of the header lines of a record the one on the
\* first such line is the one reported.
C22_FirstProblem ==
    (rcc = "done" /\ initial_metadata = <<>> /\ body_part # <<>>
     /\ ProblemLines # {}) =>
        /\ record_result.err.type = "BlurbError"
        /\ IF Least(ProblemLines) \in SecondSettings
           THEN /\ record_result.err.what = "metadata sets name twice"
                /\ record_result.err.arg
                      = header_lines[Least(ProblemLines)].name
           ELSE /\ record_result.err.what
                      = RefusalOf(header_lines[Least(ProblemLines)])
                /\ record_result.err.arg
                      = header_lines[Least(ProblemLines)].value

----------------------------------------------------------------------------
(* SpecReflow: textwrap_body, without indent, applied to a text and then    *)
(* to its own result. The texts are put together from up to                 *)
(* MaxReflowPieces pieces.                                                  *)

MaxReflowPieces == 4

\* a word of 72 characters: with a one-letter word before it and one
\* after it, it fills a line of 76 columns
Word72 == "xxxxxxxxxxxxxxxxxxxxxxxxxxxxxxxxxxxxxxxxxxxxxxxxxxxxxxxxxxxxxxxxxxxxxxxx"

ReflowPieces == {
    <<"y">>,
    \* a wide gap
    <<" ", " ", " ", " ">>,
    <<Word72>>,
    \* a word after a double space
    <<" ", " ", "y">>,
    \* the end of a paragraph
    <<NL, NL>>,
    \* a list item
    <<"*", " ", "y">>,
    \* prose on two lines
    <<"y", NL, "y">>,
    \* the announcement of a literal block
    <<"y", ":", ":">>
}

RECURSIVE Concat(_)
Concat(ps) == IF ps = <<>> THEN <<>> ELSE Head(ps) \o Concat(Tail(ps))

ReflowInputs ==
    {Concat(ps) :
        ps \in UNION {[1..n -> ReflowPieces] : n \in 1..MaxReflowPieces}}

InitReflow ==
    /\ reflow_text \in ReflowInputs
    /\ wrapped_paragraphs = <<>>
    /\ reflowed = <<>>
    /\ reflowed_again = <<>>
    /\ rfc = "start"
    /\ ParseIdle /\ StoreIdle /\ CodecIdle /\ SectionIdle /\ VersionsIdle
    /\ RecordIdle /\ GlobIdle /\ RenderIdle /\ LastIdle

\* text = textwrap_body(reflow_text)
Reflow ==
    /\ rfc = "start"
    /\ wrapped_paragraphs' =
          WrapParagraphs(Paragraphs(reflow_text), FALSE, <<>>, <<>>)
    /\ reflowed' = textwrap_body(reflow_text, <<>>)
    /\ rfc' = "once"
    /\ UNCHANGED <<reflow_text, reflowed_again>>
    /\ UNCHANGED <<parseVars, storeVars, codecVars, sectionVars, versionVars,
                   recordVars, globVars, renderVars, lastVars>>

\* text = textwrap_body(text)
ReflowAgain ==
    /\ rfc = "once"
    /\ reflowed_again' = textwrap_body(reflowed, <<>>)
    /\ rfc' = "twice"
    /\ UNCHANGED <<reflow_text, wrapped_paragraphs, reflowed>>
    /\ UNCHANGED <<parseVars, storeVars, codecVars, sectionVars, versionVars,
                   recordVars, globVars, renderVars, lastVars>>

NextReflow == Reflow \/ ReflowAgain

SpecReflow == InitReflow /\ [][NextReflow]_vars

\* C16: textwrap_body applied to its own result gives that result again.
C16_Idempotent ==
    rfc = "twice" => reflowed_again = reflowed

\* paragraph j of the text comes after a paragraph that begins with a list
\* marker, with no paragraph ending with '::' from that one up to it
AfterListItem(ps, j) ==
    \E i \in 1..(j - 1) :
        /\ \E marker \in {<<"*", " ">>, <<"1", ".", " ">>, <<"#", ".", " ">>} :
              StartsWith(ps[i], marker)
        /\ \A k \in i..j : ~EndsWith(ps[k], <<":", ":">>)

\* C19: every paragraph that follows a paragraph beginning with '* ',
\* '1. ' or '#. ', with no paragraph ending with '::' in between, comes
\* out of textwrap_body as it went in.
C19_Sticky ==
    rfc # "start" =>
        \A j \in 1..Len(Paragraphs(reflow_text)) :
            AfterListItem(Paragraphs(reflow_text), j) =>
                wrapped_paragraphs[j] = Paragraphs(reflow_text)[j]

----------------------------------------------------------------------------
(* SpecGlob: glob_blurbs('next') over a pending store of up to MaxGlobFiles *)
(* files: fragments under both directory forms of a section, a README.rst,  *)
(* files that are no .rst files, a hidden file and files in a directory     *)
(* that is no section.                                                      *)

MaxGlobFiles == 3

GlobDirs == {
    <<"C","o","r","e","_","a","n","d","_","B","u","i","l","t","i","n","s">>,
    <<"C","o","r","e"," ","a","n","d"," ","B","u","i","l","t","i","n","s">>,
    <<"L","i","b","r","a","r","y">>,
    <<"O","t","h","e","r">>
}

GlobNames == {
    <<"2","0","2","4","-","0","1","-","0","1","-","0","0","-","0","0","-","0","0",".","g","h","-","i","s","s","u","e","-","4","0","0","0","1",".","Z","z","0","0","1","1",".","r","s","t">>,
    <<"2","0","2","4","-","0","2","-","0","1","-","0","0","-","0","0","-","0","0",".","b","p","o","-","5",".","Q","q","2","2","3","3",".","r","s","t">>,
    README,
    <<"n","o","t","e","s",".","t","x","t">>
}

GlobPool ==
    {[path |-> NextBase \o <<"/">> \o dir \o <<"/">> \o name, content |-> <<>>] :
        dir \in GlobDirs, name \in GlobNames}
    \cup {[path |-> NextBase \o <<"/","L","i","b","r","a","r","y","/",".","h","i","d","d","e","n",".","r","s","t">>, content |-> <<>>]}

InitGlob ==
    /\ next \in {S \in SUBSET GlobPool : Cardinality(S) <= MaxGlobFiles}
    /\ docs = {}
    /\ news = NoFile
    /\ git_add_files = <<>>
    /\ git_rm_files = <<>>
    /\ cmd = NoCmd
    /\ glob_result = <<>>
    /\ gbc = "start"
    /\ ParseIdle /\ CodecIdle /\ SectionIdle /\ VersionsIdle
    /\ RecordIdle /\ ReflowIdle /\ RenderIdle /\ LastIdle

\* filenames = glob_blurbs('next')
GlobBlurbs ==
    /\ gbc = "start"
    /\ \E filenames \in glob_blurbs(V_next, next, docs) :
          glob_result' = filenames
    /\ gbc' = "done"
    /\ UNCHANGED <<parseVars, storeVars, codecVars, sectionVars, versionVars,
                   recordVars, reflowVars, renderVars, lastVars>>

NextGlob == GlobBlurbs

SpecGlob == InitGlob /\ [][NextGlob]_vars

\* the directory and the name of a path of the pending store
DirOf(path) == LET c == Split(path, <<"/">>) IN c[Len(c) - 1]

\* a .rst file, not hidden and no README.rst, in a directory named by a
\* form of a section
IsFragmentFile(path) ==
    /\ StartsWith(path, NextBase \o <<"/">>)
    /\ Len(Split(path, <<"/">>)) = Len(Split(NextBase, <<"/">>)) + 2
    /\ \E f \in DirForms : DirOf(path) \in {f.current, f.legacy}
    /\ EndsWith(Basename(path), Ext_rst)
    /\ Head(Basename(path)) # "."
    /\ Basename(path) # README

\* the path with the canonical name of the section for the directory
CanonicalPath(path) ==
    NextBase \o <<"/">> \o FormOf(path).section \o <<"/">> \o Basename(path)

\* C18: glob_blurbs('next') returns, once each, exactly the .rst files of
\* the directories named by the current or the legacy form of a section
\* that are no README.rst, in descending order of the path with the
\* canonical section name for the directory; two fragments of one section
\* are in descending order of their file names, whichever form of the
\* directory holds them.
C18_GlobBlurbs ==
    gbc = "done" =>
        /\ {glob_result[i] : i \in 1..Len(glob_result)}
              = {f.path : f \in {g \in next : IsFragmentFile(g.path)}}
        /\ \A i, j \in 1..Len(glob_result) :
              i < j =>
                /\ glob_result[i] # glob_result[j]
                /\ StrLeq(CanonicalPath(glob_result[j]),
                          CanonicalPath(glob_result[i]))
                /\ FormOf(glob_result[i]) = FormOf(glob_result[j]) =>
                      StrLeq(Basename(glob_result[j]), Basename(glob_result[i]))

\* a newer fragment in the legacy directory comes before an older one in
\* the current directory of the same section, a README.rst beside them
C18_Witness ==
    /\ gbc = "done"
    /\ Len(glob_result) = 2
    /\ DirOf(glob_result[1]) = S_Core_and_Builtins
    /\ DirOf(glob_result[2]) = sanitize_section(S_Core_and_Builtins)
    /\ Basename(glob_result[1]) # Basename(glob_result[2])
    /\ \E f \in next : Basename(f.path) = README

----------------------------------------------------------------------------
(* SpecRender: the part of write_news that renders one version, over the    *)
(* records of a version document: up to MaxRenderRecords records of two     *)
(* sections, the first with the release date.                               *)

MaxRenderRecords == 3

RenderVersion == <<"3",".","1","2",".","0">>

RenderRecords ==
    {[metadata |-> <<issue, <<K_section, section>>>>, body |-> body] :
        issue \in {<<K_gh_issue, N_gh>>, <<K_bpo, N_bpo>>},
        section \in {S_Library, <<"T","e","s","t","s">>},
        body \in {Body_Hello, <<"M","o","r","e","\n">>}}

InitRender ==
    /\ render_blurbs \in
          {Stamped(blurbs, D_today) :
              blurbs \in UNION {[1..n -> RenderRecords] :
                                  n \in 1..MaxRenderRecords}}
    /\ render_items = <<>>
    /\ rdc = "start"
    /\ ParseIdle /\ StoreIdle /\ CodecIdle /\ SectionIdle /\ VersionsIdle
    /\ RecordIdle /\ ReflowIdle /\ GlobIdle /\ LastIdle

\* one round of the loop of write_news over the versions
Render ==
    /\ rdc = "start"
    /\ render_items' = VersionItems(RenderVersion, render_blurbs).items
    /\ rdc' = "done"
    /\ UNCHANGED render_blurbs
    /\ UNCHANGED <<parseVars, storeVars, codecVars, sectionVars, versionVars,
                   recordVars, reflowVars, globVars, lastVars>>

NextRender == Render

SpecRender == InitRender /\ [][NextRender]_vars

\* the places of the rendered version where the header of section stands
\* with its underline
HeadersOf(section) ==
    {i \in 1..(Len(render_items) - 1) :
        /\ render_items[i] = section
        /\ render_items[i + 1] = Repeat("-", section)}

\* C20: in a rendered version the header of every section that has a
\* record stands exactly once, with its underline.
C20_HeaderOnce ==
    rdc = "done" =>
        \A k \in 1..Len(render_blurbs) :
            Cardinality(HeadersOf(Get(render_blurbs[k].metadata, K_section)))
                = 1


----------------------------------------------------------------------------
(* blurb add: the interactive workflow of blurb._add.add, with             *)
(* Blurbs.save_next.  The user edits the temporary file in the editor,     *)
(* the text is loaded, and a failure is shown at a prompt where the user   *)
(* hits return to edit again or interrupts.  The branch that reads the     *)
(* text from stdin runs no editor and is left out.                         *)

MaxEditorRuns == 2
MaxAddLines == 2

\* a metadata line without a colon
L_x ==
    [name |-> <<"x">>, value |-> <<>>,
     written |-> <<".","."," ","x">>,
     isint |-> FALSE, number |-> 0]

L_bpo_5 ==
    [name |-> K_bpo, value |-> <<"5">>,
     written |-> <<".","."," ","b","p","o",":"," ","5">>,
     isint |-> TRUE, number |-> 5]

AddHeaderPool == {L_gh_32426, L_bpo_5, L_bpo_0, L_section, L_x}

\* what the user may leave in the temporary file
AddTexts ==
    {RecordText(header, body, rest) :
        header \in UNION {[1..n -> AddHeaderPool] : n \in 0..MaxAddLines},
        body \in {<< >>, << <<"H","e","l","l","o">> >>},
        rest \in {<<>>, SecondRecord}}

\* Blurbs.save_next(self): the path returned, the pending store and the
\* list self afterwards, and the exception raised if any; the file name is
\* taken from a copy of the metadata
save_next(self, pending, now) ==
    IF Len(self) # 1
    THEN [path |-> <<>>, pending |-> pending, self |-> self,
          err |-> AssertionError("len(self) == 1", 0)]
    ELSE LET e == _extract_next_filename(self[1], now)
         IN IF e.err # NoError
            THEN [path |-> <<>>, pending |-> pending, self |-> self,
                  err |-> e.err]
            ELSE [path |-> e.path,
                  pending |->
                     WriteFile(pending, RelPath(e.path),
                               BlurbsStr(<<[metadata |-> e.metadata,
                                            body |-> self[1].body]>>)),
                  self |-> self, err |-> NoError]

InitAdd ==
    /\ edited = <<>>
    /\ add_blurb = NoResult
    /\ add_saved = NoSaved
    /\ apc = "editor"
    /\ editor_runs = 0
    /\ next \in {{}, {ReadmeFile}}
    /\ docs = {}
    /\ news = NoFile
    /\ git_add_files = <<>>
    /\ git_rm_files = <<>>
    /\ cmd = NoCmd
    /\ ParseIdle /\ CodecIdle /\ SectionIdle /\ VersionsIdle
    /\ RecordIdle /\ ReflowIdle /\ GlobIdle /\ RenderIdle /\ RaceIdle

\* add from 'path = blurb.save_next()' on; add_ok tells whether 'git add'
\* succeeded
SaveAdded(saved, add_ok) ==
    /\ add_saved' = [path |-> saved.path, err |-> saved.err]
    /\ next' = saved.pending
    /\ IF saved.err # NoError
       THEN apc' = "crashed" /\ git_add_files' = git_add_files
       ELSE IF add_ok
       THEN apc' = "done" /\ git_add_files' = <<>>
       ELSE apc' = "crashed" /\ git_add_files' = <<saved.path>>

\* what add does with the result of loading the temporary file: only a
\* BlurbError and a text of several entries make _add_blurb_from_template
\* return None
AddLoaded(loaded, add_ok) ==
    /\ add_blurb' = loaded
    /\ IF loaded.err # NoError /\ loaded.err.type # "BlurbError"
       THEN /\ apc' = "crashed"
            /\ UNCHANGED <<add_saved, next, git_add_files>>
       ELSE IF loaded.err # NoError \/ Len(loaded.self) > 1
       THEN /\ apc' = "prompt"
            /\ UNCHANGED <<add_saved, next, git_add_files>>
       ELSE SaveAdded(save_next(loaded.self, next, D_now), add_ok)

\* one round of the loop of add: _add_blurb_from_template runs the editor
\* and loads the file; when it returns a blurb, add saves it and stages it
AddBlurbFromTemplate ==
    /\ apc = "editor"
    /\ editor_runs < MaxEditorRuns
    /\ editor_runs' = editor_runs + 1
    /\ \E t \in AddTexts, add_ok \in BOOLEAN :
          /\ edited' = t
          /\ AddLoaded(parse(<<>>, t, <<>>), add_ok)
    /\ UNCHANGED <<docs, news, git_rm_files, cmd>>
    /\ UNCHANGED <<parseVars, codecVars, sectionVars, versionVars,
                   recordVars, reflowVars, globVars, renderVars, raceVars>>

\* the user hits return at 'Hit return to retry (or Ctrl-C to abort)'
Retry ==
    /\ apc = "prompt"
    /\ apc' = "editor"
    /\ UNCHANGED <<edited, add_blurb, add_saved, editor_runs>>
    /\ UNCHANGED storeVars
    /\ UNCHANGED <<parseVars, codecVars, sectionVars, versionVars,
                   recordVars, reflowVars, globVars, renderVars, raceVars>>

\* the user interrupts at the prompt: add returns
Interrupt ==
    /\ apc = "prompt"
    /\ apc' = "aborted"
    /\ UNCHANGED <<edited, add_blurb, add_saved, editor_runs>>
    /\ UNCHANGED storeVars
    /\ UNCHANGED <<parseVars, codecVars, sectionVars, versionVars,
                   recordVars, reflowVars, globVars, renderVars, raceVars>>

NextAdd == AddBlurbFromTemplate \/ Retry \/ Interrupt

SpecAdd == InitAdd /\ [][NextAdd]_vars

\* C24: in the interactive add workflow a fragment is written to the
\* pending store and queued for staging only after the edited text has
\* parsed into exactly one record; every parse failure and every text of
\* more than one entry leads to the prompt, from where the editor runs
\* again, with no file written; an interrupt at the prompt ends the
\* command with no fragment created.
C24_RetryLoop ==
    [][/\ (apc = "editor" /\ apc' # "editor") =>
            /\ (next' # next \/ git_add_files' # git_add_files) =>
                  (add_blurb'.err = NoError /\ Len(add_blurb'.self) = 1)
            /\ (add_blurb'.err # NoError \/ Len(add_blurb'.self) > 1) =>
                  (apc' = "prompt" /\ next' = next)
       /\ (apc = "prompt" /\ apc' = "aborted") => next' = next
       /\ (apc = "prompt" /\ apc' # "aborted") =>
             (apc' = "editor" /\ next' = next)]_vars

\* C28: save_next is total on parsed input: once parse accepted a text of
\* one record, save_next wrote one file under the pending area, returned
\* its path, and left the record of the caller as it was.
C28_SaveNextTotal ==
    (apc \in {"done", "crashed"} /\ add_blurb.err = NoError
                                 /\ Len(add_blurb.self) = 1) =>
        /\ add_saved.err = NoError
        /\ StartsWith(RelPath(add_saved.path), NextBase \o <<"/">>)
        /\ Exists(next, RelPath(add_saved.path))
        /\ Cardinality({f \in next : f # ReadmeFile}) = 1
        /\ add_blurb = parse(<<>>, edited, <<>>)


----------------------------------------------------------------------------
(* blurb release next to blurb add on the same store.  The two commands    *)
(* are separate processes that share nothing but the files, so release     *)
(* is taken in the steps in which it touches the store: it lists the       *)
(* pending store, loads the listed files one by one, saves the document,   *)
(* removes the listed files, and reloads the document.  Blurbs.save of an  *)
(* add creates the file empty when it opens it and fills it when it        *)
(* closes it.                                                              *)

MaxAdds == 2

RaceVersion == <<"3",".","1","2",".","0">>

\* what the user of add i left in the editor
RaceText(i) ==
    <<".","."," ","g","h","-","i","s","s","u","e",":"," ","4","0","0","1">>
    \o <<Digits[i + 1], NL>>
    \o <<".","."," ","s","e","c","t","i","o","n",":"," ","L","i","b","r","a","r","y">>
    \o <<NL, NL, "F","i","x"," ", Digits[i + 1], ".">>

\* the blurb add i saves: the commands add different records
RaceBlurb(i) == parse(<<>>, RaceText(i), <<>>).self

\* what save is called with in save_next: the path, from the working
\* directory, and the text str(self) of the copy, named being what
\* _extract_next_filename gave for it
RaceSave(named, body) ==
    [path |-> RelPath(named.path),
     content |-> BlurbsStr(<<[metadata |-> named.metadata, body |-> body]>>)]

RaceSaveOf(blurb) ==
    RaceSave(_extract_next_filename(blurb[1], D_now), blurb[1].body)

\* the file add i saves
RaceFile(i) == RaceSaveOf(RaceBlurb(i))

\* the pending store the commands start on: empty, or one fragment
RaceStores == {{}} \cup {{f} : f \in Fragments}

InitRace ==
    /\ next \in RaceStores
    /\ docs = {}
    /\ news = NoFile
    /\ git_add_files = <<>>
    /\ git_rm_files = <<>>
    /\ cmd = NoCmd
    /\ rel_pc = "start"
    /\ rel_filenames = <<>>
    /\ rel_blurbs = NoResult
    /\ add_pc = [i \in 1..MaxAdds |-> "start"]
    /\ late_paths = {}
    /\ ParseIdle /\ CodecIdle /\ SectionIdle /\ VersionsIdle
    /\ RecordIdle /\ ReflowIdle /\ GlobIdle /\ RenderIdle /\ AddIdle

RaceOthers ==
    UNCHANGED <<parseVars, codecVars, sectionVars, versionVars,
                recordVars, reflowVars, globVars, renderVars, addVars>>

\* release ends here: the record of the command
RaceEnded(outcome, adds, saved) ==
    cmd' = Released(RaceVersion, outcome, rel_filenames, next, docs,
                    adds, saved).cmd

\* release up to 'filenames = glob_blurbs('next')'
RelList ==
    /\ rel_pc = "start"
    /\ IF \E l \in glob_blurbs(RaceVersion, next, docs) : l # <<>>
       THEN /\ rel_pc' = "failed"
            /\ RaceEnded("exit", <<>>, <<>>)
            /\ UNCHANGED rel_filenames
       ELSE /\ rel_pc' = "listed"
            /\ rel_filenames' \in glob_blurbs(V_next, next, docs)
            /\ UNCHANGED cmd
    /\ UNCHANGED <<next, docs, news, git_add_files, git_rm_files>>
    /\ UNCHANGED <<rel_blurbs, add_pc, late_paths>>
    /\ RaceOthers

\* release once load_next has returned or raised
RelLoaded(loaded) ==
    /\ rel_blurbs' = loaded
    /\ IF loaded.err # NoError
       THEN rel_pc' = "failed" /\ RaceEnded(loaded.err.type, <<>>, <<>>)
       ELSE UNCHANGED <<rel_pc, cmd>>

\* blurbs.load_next(filename)
RelLoadNext(filename) ==
    RelLoaded(load_next(rel_blurbs.self, filename, ReadFile(next, filename)))

\* one round of 'for filename in filenames: blurbs.load_next(filename)'
RelLoad ==
    /\ rel_pc = "listed"
    /\ Len(rel_blurbs.self) < Len(rel_filenames)
    /\ RelLoadNext(rel_filenames[Len(rel_blurbs.self) + 1])
    /\ UNCHANGED <<next, docs, news, git_add_files, git_rm_files>>
    /\ UNCHANGED <<rel_filenames, add_pc, late_paths>>
    /\ RaceOthers

\* the blurbs release saves once the loop is over
RaceStamped ==
    Stamped(IF rel_filenames = <<>> THEN NoChanges(RaceVersion, D_today)
                                    ELSE rel_blurbs.self,
            D_today)

\* blurbs.save(output) and the 'git add' of the document
RelSaved(blurbs) ==
    /\ rel_blurbs' = [self |-> blurbs, err |-> NoError]
    /\ docs' = WriteFile(docs, DocPath(RaceVersion), BlurbsStr(blurbs))
    /\ \E add_ok \in BOOLEAN :
          IF add_ok
          THEN rel_pc' = "saved" /\ UNCHANGED cmd
          ELSE /\ rel_pc' = "failed"
               /\ cmd' = Released(RaceVersion, "CalledProcessError",
                                  rel_filenames, next, docs',
                                  <<DocPath(RaceVersion)>>, blurbs).cmd

RelSave ==
    /\ rel_pc = "listed"
    /\ Len(rel_blurbs.self) = Len(rel_filenames)
    /\ RelSaved(RaceStamped)
    /\ UNCHANGED <<next, news, git_add_files, git_rm_files>>
    /\ UNCHANGED <<rel_filenames, add_pc, late_paths>>
    /\ RaceOthers

\* git_rm_files.extend(filenames); flush_git_rm_files()
RelRemove ==
    /\ rel_pc = "saved"
    /\ rel_pc' = "removed"
    /\ next' = flush_git_rm_files(next, rel_filenames)
    /\ UNCHANGED <<docs, news, git_add_files, git_rm_files, cmd>>
    /\ UNCHANGED <<rel_filenames, rel_blurbs, add_pc, late_paths>>
    /\ RaceOthers

\* the sanity check at the end of release
RelCheck ==
    /\ rel_pc = "removed"
    /\ rel_pc' = "done"
    /\ RaceEnded(SanityCheck(rel_blurbs.self,
                             parse(<<>>, ReadFile(docs, DocPath(RaceVersion)),
                                   <<>>)),
                 <<>>, rel_blurbs.self)
    /\ UNCHANGED <<next, docs, news, git_add_files, git_rm_files>>
    /\ UNCHANGED <<rel_filenames, rel_blurbs, add_pc, late_paths>>
    /\ RaceOthers

\* save_next of add i up to open(path, 'w') in save: the file is there and
\* empty
AddOpened(path) ==
    /\ next' = WriteFile(next, path, <<>>)
    /\ late_paths' = IF rel_pc = "start" THEN late_paths
                     ELSE late_paths \cup {path}

AddOpen(i) ==
    /\ add_pc[i] = "start"
    /\ add_pc' = [add_pc EXCEPT ![i] = "opened"]
    /\ AddOpened(RaceFile(i).path)
    /\ UNCHANGED <<docs, news, git_add_files, git_rm_files, cmd>>
    /\ UNCHANGED <<rel_pc, rel_filenames, rel_blurbs>>
    /\ RaceOthers

\* file.write(text) and the close of the file in save; what is written to
\* a file that was unlinked meanwhile is under no name
AddWritten(file) ==
    next' = IF Exists(next, file.path)
            THEN WriteFile(next, file.path, file.content)
            ELSE next

AddWrite(i) ==
    /\ add_pc[i] = "opened"
    /\ add_pc' = [add_pc EXCEPT ![i] = "done"]
    /\ AddWritten(RaceFile(i))
    /\ UNCHANGED <<docs, news, git_add_files, git_rm_files, cmd>>
    /\ UNCHANGED <<rel_pc, rel_filenames, rel_blurbs, late_paths>>
    /\ RaceOthers

NextRace ==
    \/ RelList
    \/ RelLoad
    \/ RelSave
    \/ RelRemove
    \/ RelCheck
    \/ \E i \in 1..MaxAdds : AddOpen(i)
    \/ \E i \in 1..MaxAdds : AddWrite(i)

SpecRace == InitRace /\ [][NextRace]_vars

\* record e is what load_next gives for the file at path as it is in
\* pending, but for the release date release sets on the first record
LoadedFrom(e, path, pending) ==
    LET loaded == load_next(<<>>, path, ReadFile(pending, path))
    IN /\ loaded.err = NoError
       /\ loaded.self[1].body = e.body
       /\ loaded.self[1].metadata = DelKey(e.metadata, K_release_date)

\* the file at path, as it is in pending, is one of the files release
\* listed, and the record release loaded from it is in the document
\* release wrote
LoadedIntoDocument(path, pending, filenames, blurbs, documents) ==
    /\ \E k \in 1..Len(filenames) :
          /\ filenames[k] = path
          /\ k <= Len(blurbs)
          /\ LoadedFrom(blurbs[k], path, pending)
    /\ Exists(documents, DocPath(RaceVersion))
    /\ ReadFile(documents, DocPath(RaceVersion)) = BlurbsStr(blurbs)

\* C30: when adds run next to a release on the same store, in every
\* interleaving each fragment file a step of release removes was listed
\* and loaded, with the content it has when it is removed, into the
\* document release wrote; and a fragment file created after release
\* listed the pending store is in the pending store from then on.
C30_RaceSafe ==
    [][/\ \A f \in next :
             ~Exists(next', f.path) =>
                LoadedIntoDocument(f.path, next, rel_filenames,
                                   rel_blurbs.self, docs)
       /\ \A path \in late_paths' : Exists(next', path)]_vars

\* a release has removed a fragment it had listed and ended normally,
\* and a fragment an add created and filled after the listing is there
C30_Witness ==
    /\ rel_pc = "done"
    /\ cmd.outcome = "ok"
    /\ Len(rel_filenames) >= 1
    /\ \A k \in 1..Len(rel_filenames) : ~Exists(next, rel_filenames[k])
    /\ \E i \in 1..MaxAdds :
          /\ add_pc[i] = "done"
          /\ RaceFile(i).path \in late_paths
          /\ RaceFile(i) \in next

====
